---- MODULE Spec2Model ----
(***************************************************************************)
(* Behavioural model of the komodo-docs-mdx tooling.                       *)
(*                                                                         *)
(*   DocsSyncManager  (.github/scripts/sync-docs-issues.js)                *)
(*   AutoPRManager    (auto-pr-from-issues.js, src/unnamed/part_001)       *)
(*                                                                         *)
(* Both bots are single-threaded event-loop programs.  Code between two    *)
(* awaits runs atomically; every action below is one such atomic segment   *)
(* (the resolution of the awaited request plus the continuation up to the  *)
(* next await).  Requests that can fail resolve with ok \in BOOLEAN.       *)
(***************************************************************************)
EXTENDS Integers, Sequences, FiniteSets, TLC

\* ------------------------------------------------------------------ bounds
MaxPRs == 4          \* longest candidate list of the docs sync explored
MaxIssues == 3       \* longest candidate list of the auto PR bot explored
MaxMethods == 1      \* most methods parsed out of one issue
MaxLen == 5          \* longest method name explored by convertMethodToPath
MaxCalls == 2        \* calls of convertMethodToPath on one method name
MaxPieces == 3       \* most words and separators in a method name
MaxRefs == 2         \* most CompactTable references in the MDX pages
MaxTaskMethods == 2  \* task lifecycle methods harvested in one run
MaxResponses == 2    \* responses classified in one run
MaxRuns == 2         \* invocations of test_setup.sh in one shell session
MaxReports == 3      \* Newman report files of one kind in postman/reports
MaxRows == 1         \* rows of a legacy table besides exampleData.legacy
MaxLinks == 2        \* links of the first Wallet section of sidebar.json
MaxArgs == 2         \* hrefs given to the auto-add-sidebar script
MaxOtherRetries == 3 \* retries of one request for a reason other than a rate limit
MaxRequests == 2     \* requests one manager sends through its Octokit

\* ------------------------------------------------------- program constants
DocsSyncConcurrency == 3
AutoPRConcurrency == 2

Numbers == {1, 2}            \* PR / issue numbers of the tracked repository

\* ------------------------------------------------------------------ labels
\* Strings are sequences of characters so that toLowerCase is computed.
LowerChar(c) ==
  CASE c = "D" -> "d"
    [] c = "O" -> "o"
    [] c = "C" -> "c"
    [] c = "E" -> "e"
    [] c = "P" -> "p"
    [] c = "R" -> "r"
    [] c = "T" -> "t"
    [] c = "U" -> "u"
    [] c = "Y" -> "y"
    [] OTHER -> c

ToLowerCase(s) == [k \in DOMAIN s |-> LowerChar(s[k])]

\* PR_TRIGGER_LABEL / AUTO_PR_LABEL as configured (mixed case on purpose)
TriggerLabel == <<"d", "O", "c">>

\* label lists a fetched PR / issue can carry
LabelSets == { {<<"D", "o", "c">>}, {<<"d", "o">>, <<"b">>} }

States == {"open", "closed"}

HasLabel(item, trigger) ==
  \E l \in item.labels : ToLowerCase(l) = ToLowerCase(trigger)

\* listCandidatePRs / listCandidateIssues keep a directly requested item
ListKeeps(item, trigger) == HasLabel(item, trigger) /\ item.state = "open"

\* processPR / processIssue skip an item
ProcessSkipsMut(item, trigger) == ~HasLabel(item, trigger)
ProcessSkips(item, trigger) == ~HasLabel(item, trigger) \/ item.state # "open"

\* validateConfig: dryRun: DRY_RUN === 'true'
EnvDryRun == {"true", "false"}
ConfigDryRunMut(v) == v = "1"
ConfigDryRun(v) == v = "true"

\* --------------------------------------------------------------- counters
ZeroStats == [processed |-> 0, created |-> 0, skipped |-> 0, errors |-> 0]

Bump(st, field) == [st EXCEPT ![field] = @ + 1]

\* run: process.exit(1) when stats.errors > 0, else fall off the end (0)
ExitStatus(st) == IF st.errors > 0 THEN 1 ELSE 0

\* the catch block of processPR / processIssue
CatchErrorMut(st) == st
CatchError(st) == Bump(st, "errors")

\* ------------------------------------------------------------- run: batches
Min(a, b) == IF a < b THEN a ELSE b

\* prs.slice(i, i + concurrency), as 1-based positions
BatchOf(i, c, len) == (i + 1) .. Min(i + c, len)

\* the for-loop increment i += concurrency
NextIndexMut(i, c) == i + c + 1
NextIndex(i, c) == i + c

\* await Promise.all(batch...) resumes when every promise of the batch settled
AllSettledMut(its, batch) == \E k \in batch : its[k].pc = "settled"
AllSettled(its, batch) == \A k \in batch : its[k].pc = "settled"

\* ------------------------------------------------------------------- state
VARIABLES
  bot,        \* "sync" (DocsSyncManager) or "auto" (AutoPRManager)
  envDryRun,  \* process.env.DRY_RUN
  specific,   \* config.specificPRs / config.specificIssues is set
  runPc,      \* position of run(): "start", "search", "fetch", "loop", "done"
  requested,  \* SPECIFIC_* numbers consumed so far by the listing loop
  found,      \* `all`: how many items the label search collected
  cands,      \* the list the listing step returns (prs / issues)
  item,       \* per candidate: position and bookkeeping of its processPR / processIssue
  idx,        \* loop variable i of run()
  stats,      \* this.stats
  exitCode,   \* -1 while running, else the process exit status
  dropped,    \* requested items the listing step left out (not open / no label)
  swallowed,  \* a request made for one candidate failed and was only logged
  issues,     \* target repository: states of the issues carrying each PR's marker
  git,        \* local clone: current branch, branches, uncommitted generated files
  origin,     \* branches pushed to origin
  pulls,      \* pull requests of the target repository
  comments,   \* issue numbers that received the "Auto PR Created" comment
  method,     \* convertMethodToPath: the argument
  path,       \* convertMethodToPath: the values its calls returned, in order
  doc,        \* generateMethodDocumentation: what the call returned
  tablesDir,  \* validator: content of each JSON file under src/data/tables
  mdxRefs,    \* validator: the CompactTable references written in the MDX pages
  mdxUnreadable, \* validator: one MDX page cannot be read
  pagesDir,   \* validator: the index.mdx pages on disk
  mainPc,     \* validator: position of main()
  tableFiles, \* validator: what loadTableFiles returned
  references, \* validator: what findCompactTableReferences returned
  filepathSlugs, \* validator: what createFileSlugs returned
  validationErrors, \* validator: the module-level array
  printed,    \* validator: validationErrors was printed
  exitStatus, \* validator: -1 while running, else the exit status
  lifecycle,  \* response harvester: the task lifecycle method being harvested
  responses,  \* response harvester: the classified responses, in order
  setup,      \* test_setup.sh: the shell session, the script and Docker
  harvest,    \* harvest_responses.sh: the script, its directory and the reports
  table,      \* tableUtils.js: the legacy rows and the converted rows
  sidebar,    \* sidebar scripts: sidebar.json and the last run of a script
  search,     \* label search of listCandidatePRs / listCandidateIssues
  request     \* one request sent through the throttled Octokit

vars == <<bot, envDryRun, specific, runPc, requested, found, cands, item, idx,
          stats, exitCode, dropped, swallowed, issues, git, origin, pulls, comments,
          method, path, doc, tablesDir, mdxRefs, mdxUnreadable, pagesDir, mainPc,
          tableFiles, references, filepathSlugs, validationErrors, printed,
          exitStatus, lifecycle, responses, setup, harvest, table, sidebar, search, request>>

remote == <<issues, origin, pulls, comments>>
listing == <<requested, found, cands, dropped, swallowed>>
\* the state of the other programs of the repository
validatorDisk == <<tablesDir, mdxRefs, mdxUnreadable, pagesDir>>
validator == <<validatorDisk, mainPc, tableFiles, references, filepathSlugs,
               validationErrors, printed, exitStatus>>

others == <<doc, validator, lifecycle, responses, setup, harvest, table, sidebar, search, request>>

static == <<bot, envDryRun, specific, method, path, others>>

dryRun == ConfigDryRun(envDryRun)

\* no task lifecycle method is being harvested
NoLifecycle == [pc |-> "idle", taskId |-> 0, checks |-> 0, clock |-> 0,
                calls |-> <<>>, remaining |-> 0]

\* test_setup.sh has not been invoked and Docker holds nothing of KDF
NoSetup == [cmd |-> "", at |-> 0, wait_time |-> 0, polls |-> 0, status |-> -1,
            hd |-> "absent", nonhd |-> "absent", image |-> FALSE,
            history |-> <<>>]

\* harvest_responses.sh is not running
NoHarvest == [pc |-> "idle", cwd |-> "", compose |-> FALSE, venv |-> FALSE,
              reportsDir |-> FALSE, results |-> 0, summaries |-> 0,
              trace |-> <<>>, status |-> -1]

\* convertLegacyTableData has neither rows nor a result
NoTable == [md |-> [headers |-> <<>>, lines |-> <<>>],
            rows |-> <<>>, converted |-> FALSE, out |-> <<>>,
            checked |-> FALSE, again |-> <<>>, errors |-> <<>>]

\* no sidebar script has run; sidebar.json holds nothing
NoSidebar == [pc |-> "idle",
              file |-> [v20 |-> FALSE, sections |-> <<>>, elsewhere |-> <<>>],
              before |-> [v20 |-> FALSE, sections |-> <<>>, elsewhere |-> <<>>],
              args |-> <<>>, wrote |-> FALSE]

\* no label search is under way
NoSearch == [manager |-> "", pc |-> "idle", page |-> 0, all |-> 0, items |-> 0,
             total_count |-> 0, requests |-> 0, failed |-> FALSE, result |-> -1]

\* no request is in flight
NoRequest == [manager |-> "", pc |-> "idle", retryCount |-> 0, log |-> <<>>,
              sent |-> 0]

\* generateMethodDocumentation has not returned yet
NoDoc == [path |-> <<>>, apiVersion |-> "", category |-> "", methodName |-> <<>>]

\* a program other than `running` has not been started
IdleExcept(running) ==
  /\ IF running = "doc" THEN TRUE ELSE doc = NoDoc
  /\ IF running = "validator" THEN TRUE
     ELSE /\ tablesDir = <<>> /\ mdxRefs = <<>> /\ mdxUnreadable = FALSE
          /\ pagesDir = <<>> /\ mainPc = "idle" /\ tableFiles = <<>>
          /\ references = <<>> /\ filepathSlugs = <<>>
          /\ validationErrors = <<>> /\ printed = FALSE /\ exitStatus = -1
  /\ IF running = "lifecycle" THEN TRUE ELSE lifecycle = NoLifecycle
  /\ IF running = "responses" THEN TRUE ELSE responses = <<>>
  /\ IF running = "setup" THEN TRUE ELSE setup = NoSetup
  /\ IF running = "harvest" THEN TRUE ELSE harvest = NoHarvest
  /\ IF running = "table" THEN TRUE ELSE table = NoTable
  /\ IF running = "sidebar" THEN TRUE ELSE sidebar = NoSidebar
  /\ IF running = "search" THEN TRUE ELSE search = NoSearch
  /\ IF running = "request" THEN TRUE ELSE request = NoRequest

Concurrency == IF bot = "sync" THEN DocsSyncConcurrency ELSE AutoPRConcurrency

\* a processPR / processIssue call that was not started yet
NewItem == [pc |-> "idle", counted |-> {}, failed |-> "none", trace |-> <<>>,
            genLeft |-> 0, docs |-> 0]

\* Branch 0 is dev, branch n is auto-pr/issue-n.  A branch is known by the set
\* of issue commits ("docs: Add documentation for issue #n") it contains.
NoBranch == [exists |-> FALSE, commits |-> {}]
InitGit == [cur |-> 0, br |-> [n \in Numbers |-> NoBranch]]

Init ==
  /\ bot \in {"sync", "auto"}
  /\ envDryRun \in EnvDryRun
  /\ specific \in BOOLEAN
  /\ runPc = "start"
  /\ requested = 0
  /\ found = 0
  /\ cands = <<>>
  /\ item = <<>>
  /\ idx = 0
  /\ stats = ZeroStats
  /\ exitCode = -1
  /\ dropped = 0
  /\ swallowed = FALSE
  /\ issues \in {[n \in Numbers |-> IF n = 1 THEN old ELSE <<>>] :
                   old \in IF bot = "sync" THEN {<<>>, <<"open">>, <<"closed">>}
                                          ELSE {<<>>}}
  /\ git = InitGit
  /\ origin = [n \in Numbers |-> NoBranch]
  /\ pulls = {}
  /\ comments = {}
  /\ method = <<>>
  /\ path = <<>>
  /\ IdleExcept("bots")

\* the listing step returned `list`: run() enters its batch loop
EnterLoop(list) ==
  /\ cands' = list
  /\ item' = [k \in 1 .. Len(list) |-> NewItem]
  /\ runPc' = "loop"
  /\ requested' = 0     \* the listing step's locals go out of scope
  /\ found' = 0

\* ------------------------------------------------- DocsSyncManager: listing
\* An element of the candidate list whose fields nothing has read yet.  The
\* label-search path stores what the server returned without looking at it;
\* its value is drawn where run() first reads it (prs.slice in the batch loop).
Unread == [number |-> 0, labels |-> {}, state |-> "unread"]
Read == [Unread EXCEPT !.state = "read"]

\* what GET pulls/{n} can answer: PR 1 or 2 open with the label, or PR 1 closed
\* or without the label
PRData ==
  {pr \in [number : Numbers, labels : LabelSets, state : States] :
     pr.number = 1 \/ (HasLabel(pr, TriggerLabel) /\ pr.state = "open")}

\* run() calls listCandidatePRs, which starts its first request
DocsSync_run_start ==
  /\ bot = "sync" /\ runPc = "start"
  /\ runPc' = IF specific THEN "fetch" ELSE "search"
  /\ UNCHANGED <<static, listing, item, idx, stats, exitCode, remote, git>>

\* one iteration of the loop over config.specificPRs
DocsSync_listSpecific ==
  /\ bot = "sync" /\ runPc = "fetch" /\ specific
  /\ requested < MaxPRs
  /\ requested' = requested + 1
  /\ \/ \E pr \in PRData :
          /\ IF ListKeeps(pr, TriggerLabel)
               THEN cands' = Append(cands, pr) /\ dropped' = dropped
               ELSE cands' = cands /\ dropped' = dropped + 1
          /\ swallowed' = swallowed
     \/ /\ swallowed' = TRUE                    \* GET pulls/{n} failed: warn
        /\ UNCHANGED <<cands, dropped>>
  /\ UNCHANGED <<static, runPc, found, item, idx, stats, exitCode, remote, git>>

\* config.specificPRs is exhausted: return prs
DocsSync_listSpecificEnd ==
  /\ bot = "sync" /\ runPc = "fetch" /\ specific
  /\ EnterLoop(cands)
  /\ UNCHANGED <<static, dropped, swallowed, idx, stats, exitCode, remote, git>>

\* the paginated label search delivers one more item
DocsSync_search ==
  /\ bot = "sync" /\ runPc = "search"
  /\ found < MaxPRs
  /\ found' = found + 1
  /\ UNCHANGED <<static, runPc, requested, cands, dropped, swallowed, item, idx,
                 stats, exitCode, remote, git>>

\* the search loop breaks: go on to fetch every found PR
DocsSync_searchEnd ==
  /\ bot = "sync" /\ runPc = "search"
  /\ runPc' = "fetch"
  /\ UNCHANGED <<static, listing, item, idx, stats, exitCode, remote, git>>

\* a search request throws: the outer catch returns []
DocsSync_searchFail ==
  /\ bot = "sync" /\ runPc = "search"
  /\ EnterLoop(<<>>)
  /\ UNCHANGED <<static, dropped, swallowed, idx, stats, exitCode, remote, git>>

\* "Convert to proper PR objects": fetch the next found item
DocsSync_convert ==
  /\ bot = "sync" /\ runPc = "fetch" /\ ~specific
  /\ requested < found
  /\ requested' = requested + 1
  /\ \/ /\ cands' = Append(cands, Unread)    \* prs.push(pr.data)
        /\ swallowed' = swallowed
     \/ /\ swallowed' = TRUE                    \* GET pulls/{n} failed: warn
        /\ cands' = cands
  /\ UNCHANGED <<static, runPc, found, dropped, item, idx, stats, exitCode,
                 remote, git>>

DocsSync_convertEnd ==
  /\ bot = "sync" /\ runPc = "fetch" /\ ~specific
  /\ requested = found
  /\ EnterLoop(cands)
  /\ UNCHANGED <<static, dropped, swallowed, idx, stats, exitCode, remote, git>>

\* ------------------------------------------------------ run(): batch loop
\* an item leaves its processPR / processIssue
Settle(it, counter) ==
  [it EXCEPT !.pc = "settled", !.counted = @ \cup {counter}]

\* the synchronous head of processPR, up to its first await
DocsSync_processPR_start(pr) ==
  IF ProcessSkips(pr, TriggerLabel)
    THEN Settle(NewItem, "skipped")
    ELSE [NewItem EXCEPT !.pc = "find", !.trace = <<"find">>]

\* batch.map(pr => this.processPR(pr)): every call runs to its first await
DocsSync_run_batch ==
  /\ bot = "sync" /\ runPc = "loop"
  /\ idx < Len(cands)
  /\ LET batch == BatchOf(idx, DocsSyncConcurrency, Len(cands))
     IN \E data \in [batch -> PRData] :
          LET started == [k \in batch |-> DocsSync_processPR_start(data[k])]
          IN /\ \A k \in batch : cands[k] # Unread => data[k] = cands[k]
             /\ cands' = [k \in DOMAIN cands |-> IF k \in batch THEN data[k] ELSE cands[k]]
             /\ item' = [k \in DOMAIN item |-> IF k \in batch THEN started[k] ELSE item[k]]
             /\ stats' = [stats EXCEPT
                            !.processed = @ + Cardinality(batch),
                            !.skipped = @ + Cardinality({k \in batch : started[k].pc = "settled"})]
  /\ runPc' = "await"
  /\ UNCHANGED <<static, requested, found, dropped, swallowed, idx, exitCode, remote, git>>

\* the frame of a call that returned is gone: only "settled" is left of it
Returned(it) == IF it.pc = "settled" THEN [NewItem EXCEPT !.pc = "settled"] ELSE it

\* run() never reads a list element again once its call returned
Consumed(c, it) == IF it.pc = "settled" THEN Read ELSE c

\* await Promise.all(...) resumes; the batch goes out of scope, the loop advances
Run_awaited ==
  /\ runPc = "await"
  /\ AllSettled(item, BatchOf(idx, Concurrency, Len(cands)))
  /\ idx' = NextIndex(idx, Concurrency)
  /\ item' = [k \in DOMAIN item |-> Returned(item[k])]
  /\ cands' = [k \in DOMAIN cands |-> Consumed(cands[k], item[k])]
  /\ runPc' = "loop"
  /\ UNCHANGED <<static, requested, found, dropped, swallowed, stats, exitCode,
                 remote, git>>

\* the loop condition fails: print the summary, decide the exit status
Run_summary ==
  /\ runPc = "loop"
  /\ idx >= Len(cands)
  /\ exitCode' = ExitStatus(stats)
  /\ runPc' = "done"
  /\ UNCHANGED <<static, listing, item, idx, stats, remote, git>>

\* --------------------------------------------- DocsSyncManager: processPR
\* findExistingIssue: `open || items[0] || null`, and null when the search throws
FindExistingIssue(items, ok) ==
  IF ~ok THEN "null"
  ELSE IF \E i \in DOMAIN items : items[i] = "open" THEN "open"
  ELSE IF Len(items) > 0 THEN items[1]
  ELSE "null"

\* GET /search/issues of findExistingIssue resolves.  When nothing is found the
\* call goes on through getPRFiles (a failure yields []) and generateAISummary,
\* neither of which reads or changes anything another call can see, into
\* createDocumentationIssue, which under dryRun returns at once and otherwise
\* sends POST /issues.
DocsSync_findExistingIssue(k) ==
  /\ bot = "sync" /\ k \in DOMAIN item /\ item[k].pc = "find"
  /\ \E ok \in BOOLEAN, filesOk \in BOOLEAN :
       LET existing == FindExistingIssue(issues[cands[k].number], ok)
           it == [item[k] EXCEPT !.trace = @ \o <<"files", "ai">>]
       IN IF existing # "null"
            THEN /\ filesOk
                 /\ swallowed' = (swallowed \/ ~ok)
                 /\ item' = [item EXCEPT ![k] = Settle(@, "skipped")]
                 /\ stats' = Bump(stats, "skipped")
            ELSE /\ swallowed' = (swallowed \/ ~ok \/ ~filesOk)
                 /\ IF dryRun
                      THEN /\ item' = [item EXCEPT ![k] = Settle(it, "created")]
                           /\ stats' = Bump(stats, "created")
                      ELSE /\ item' = [item EXCEPT ![k] =
                                         [it EXCEPT !.pc = "issue",
                                                    !.trace = Append(@, "issue")]]
                           /\ stats' = stats
  /\ UNCHANGED <<static, requested, found, cands, dropped, runPc, idx, exitCode,
                 remote, git>>

\* POST /repos/{owner}/{repo}/issues resolves
DocsSync_postIssue(k) ==
  /\ bot = "sync" /\ k \in DOMAIN item /\ item[k].pc = "issue"
  /\ \/ /\ issues' = [issues EXCEPT ![cands[k].number] = Append(@, "open")]
        /\ item' = [item EXCEPT ![k].pc = "comment", ![k].trace = Append(@, "comment")]
        /\ stats' = stats
     \/ /\ issues' = issues
        /\ item' = [item EXCEPT ![k] =
                      Settle([item[k] EXCEPT !.failed = "issue"], "errors")]
        /\ stats' = CatchError(stats)
  /\ UNCHANGED <<static, listing, runPc, idx, exitCode, origin, pulls, comments, git>>

\* POST .../issues/{issue_number}/comments (the backlink) resolves
DocsSync_postComment(k) ==
  /\ bot = "sync" /\ k \in DOMAIN item /\ item[k].pc = "comment"
  /\ \/ /\ item' = [item EXCEPT ![k] = Settle(item[k], "created")]
        /\ stats' = Bump(stats, "created")
     \/ /\ item' = [item EXCEPT ![k] =
                      Settle([item[k] EXCEPT !.failed = "comment"], "errors")]
        /\ stats' = CatchError(stats)
  /\ UNCHANGED <<static, listing, runPc, idx, exitCode, remote, git>>

DocsSync_processPR ==
  \E k \in 1 .. MaxPRs :
     \/ DocsSync_findExistingIssue(k)
     \/ DocsSync_postIssue(k)
     \/ DocsSync_postComment(k)

\* --------------------------------------------------- AutoPRManager: listing
\* what the issue endpoints can answer: issue 1 or 2 open with the label, or
\* issue 1 closed or without the label (title and body are not modelled)
IssueData == PRData

\* run(): git checkout dev, git pull origin dev, then listCandidateIssues
AutoPR_run_start ==
  /\ bot = "auto" /\ runPc = "start"
  /\ \/ /\ runPc' = IF specific THEN "fetch" ELSE "search"
        /\ exitCode' = exitCode
     \/ /\ runPc' = "done"            \* execSync throws: catch, process.exit(1)
        /\ exitCode' = 1
  /\ UNCHANGED <<static, listing, item, idx, stats, remote, git>>

\* one iteration of the loop over config.specificIssues
AutoPR_listSpecific ==
  /\ bot = "auto" /\ runPc = "fetch" /\ specific
  /\ requested < MaxIssues
  /\ requested' = requested + 1
  /\ \/ \E is \in IssueData :
          /\ IF ListKeeps(is, TriggerLabel)
               THEN cands' = Append(cands, is) /\ dropped' = dropped
               ELSE cands' = cands /\ dropped' = dropped + 1
          /\ swallowed' = swallowed
     \/ /\ swallowed' = TRUE                    \* GET issues/{n} failed: warn
        /\ UNCHANGED <<cands, dropped>>
  /\ UNCHANGED <<static, runPc, found, item, idx, stats, exitCode, remote, git>>

AutoPR_listSpecificEnd ==
  /\ bot = "auto" /\ runPc = "fetch" /\ specific
  /\ EnterLoop(cands)
  /\ UNCHANGED <<static, dropped, swallowed, idx, stats, exitCode, remote, git>>

\* the paginated label search delivers one more item: all.push(...)
AutoPR_search ==
  /\ bot = "auto" /\ runPc = "search"
  /\ found < MaxIssues
  /\ found' = found + 1
  /\ cands' = Append(cands, Unread)
  /\ UNCHANGED <<static, runPc, requested, dropped, swallowed, item, idx, stats,
                 exitCode, remote, git>>

\* the search loop breaks: return all
AutoPR_searchEnd ==
  /\ bot = "auto" /\ runPc = "search"
  /\ EnterLoop(cands)
  /\ UNCHANGED <<static, dropped, swallowed, idx, stats, exitCode, remote, git>>

\* a search request throws: the outer catch returns []
AutoPR_searchFail ==
  /\ bot = "auto" /\ runPc = "search"
  /\ EnterLoop(<<>>)
  /\ UNCHANGED <<static, dropped, swallowed, idx, stats, exitCode, remote, git>>

\* ------------------------------------------------ AutoPRManager: git steps
\* the commands of createBranchAndCommit, in program order
CreateBranchStepsMut ==
  <<"checkout", "write", "build", "add", "push", "commit">>
CreateBranchSteps ==
  <<"checkout", "write", "build", "add", "commit", "push">>

\* w = [git, origin]: can the command succeed at all
StepPossible(step, w, n) ==
  CASE step = "checkout" -> ~w.git.br[n].exists     \* git checkout -b: name is free
    [] step = "push" -> ~w.origin[n].exists         \* a re-made commit is no fast-forward
    [] OTHER -> TRUE

\* the effect of a command that succeeds
StepEffect(step, w, n) ==
  CASE step = "checkout" ->
         [w EXCEPT !.git.br[n] =
                      [exists |-> TRUE,
                       commits |-> IF w.git.cur = 0 THEN {}
                                   ELSE w.git.br[w.git.cur].commits],
                   !.git.cur = n]
    [] step = "commit" ->
         IF w.git.cur = 0 THEN w
         ELSE [w EXCEPT !.git.br[w.git.cur].commits = @ \cup {n}]
    [] step = "push" -> [w EXCEPT !.origin[n] = w.git.br[n]]
    [] OTHER -> w

\* run the commands in order until one throws; failAt is the command the
\* environment makes fail (or "none")
RECURSIVE RunSteps(_, _, _, _, _)
RunSteps(steps, w, n, failAt, dry) ==
  IF steps = <<>> THEN [w |-> w, done |-> <<>>, failed |-> "none"]
  ELSE LET step == Head(steps)
       IN IF step = "push" /\ dry
            THEN RunSteps(Tail(steps), w, n, failAt, dry)
          ELSE IF step = failAt \/ ~StepPossible(step, w, n)
            THEN [w |-> w, done |-> <<>>, failed |-> step]
          ELSE LET r == RunSteps(Tail(steps), StepEffect(step, w, n), n, failAt, dry)
               IN [r EXCEPT !.done = <<step>> \o @]

createBranchAndCommit(w, n, failAt, dry) ==
  RunSteps(CreateBranchSteps, w, n, failAt, dry)

\* the commands the environment can make fail
GitFailures == {"none", "build", "push"}

\* the cleanup of processIssue's catch block:
\* git checkout dev && git branch -D auto-pr/issue-n (errors ignored)
Cleanup(g, n) == [g EXCEPT !.cur = 0, !.br[n] = NoBranch]

\* ----------------------------------------- AutoPRManager: processIssue
\* the synchronous head of processIssue, up to its first await; methods is the
\* number of method names parseIssueContent finds in the issue
AutoPR_processIssue_start(is, methods) ==
  IF ProcessSkips(is, TriggerLabel) \/ methods = 0
    THEN Settle(NewItem, "skipped")
    ELSE [NewItem EXCEPT !.pc = "gen", !.genLeft = methods]

\* batch.map(issue => this.processIssue(issue)): every call runs to its first await
AutoPR_run_batch ==
  /\ bot = "auto" /\ runPc = "loop"
  /\ idx < Len(cands)
  /\ LET batch == BatchOf(idx, AutoPRConcurrency, Len(cands))
     IN \E data \in [batch -> IssueData], methods \in [batch -> 0 .. MaxMethods] :
          LET started == [k \in batch |-> AutoPR_processIssue_start(data[k], methods[k])]
          IN /\ \A k \in batch : cands[k] # Unread => data[k] = cands[k]
             /\ \A k \in batch : ProcessSkips(data[k], TriggerLabel) => methods[k] = 0
             /\ cands' = [k \in DOMAIN cands |-> IF k \in batch THEN data[k] ELSE cands[k]]
             /\ item' = [k \in DOMAIN item |-> IF k \in batch THEN started[k] ELSE item[k]]
             /\ stats' = [stats EXCEPT
                            !.processed = @ + Cardinality(batch),
                            !.skipped = @ + Cardinality({k \in batch : started[k].pc = "settled"})]
  /\ runPc' = "await"
  /\ UNCHANGED <<static, requested, found, dropped, swallowed, idx, exitCode, remote, git>>

\* the catch block of processIssue: count the error, clean up, return
Caught(k, step, g) ==
  /\ item' = [item EXCEPT ![k] = Settle([item[k] EXCEPT !.failed = step], "errors")]
  /\ stats' = CatchError(stats)
  /\ git' = Cleanup(g, cands[k].number)

\* one generateMethodDocumentation resolves; after the last one the call runs
\* createBranchAndCommit, which is execSync from end to end
AutoPR_generate(k) ==
  /\ bot = "auto" /\ k \in DOMAIN item /\ item[k].pc = "gen"
  /\ \E ok \in BOOLEAN, failAt \in GitFailures :
       LET docs == item[k].docs + (IF ok THEN 1 ELSE 0)
           left == item[k].genLeft - 1
           r == createBranchAndCommit([git |-> git, origin |-> origin],
                                      cands[k].number, failAt, dryRun)
       IN /\ swallowed' = (swallowed \/ ~ok)
          /\ IF left > 0
               THEN /\ failAt = "none"
                    /\ item' = [item EXCEPT ![k].docs = docs, ![k].genLeft = left]
                    /\ UNCHANGED <<stats, git, origin>>
             ELSE IF docs = 0
               THEN /\ failAt = "none"
                    /\ item' = [item EXCEPT ![k] =
                                  Settle([@ EXCEPT !.genLeft = 0, !.docs = 0], "skipped")]
                    /\ stats' = Bump(stats, "skipped")
                    /\ UNCHANGED <<git, origin>>
             ELSE /\ item' = [item EXCEPT ![k] =
                                [@ EXCEPT !.pc = "branch", !.docs = 0, !.genLeft = 0,
                                          !.trace = r.done, !.failed = r.failed]]
                  /\ git' = r.w.git
                  /\ origin' = r.w.origin
                  /\ stats' = stats
  /\ UNCHANGED <<static, requested, found, cands, dropped, runPc, idx, exitCode,
                 issues, pulls, comments>>

\* `await this.createBranchAndCommit(...)` resumes: on a throw the catch block
\* runs, otherwise createPullRequest starts (under dryRun it returns at once,
\* stats.created++ follows and the call is over)
AutoPR_afterBranch(k) ==
  /\ bot = "auto" /\ k \in DOMAIN item /\ item[k].pc = "branch"
  /\ IF item[k].failed # "none"
       THEN Caught(k, item[k].failed, git)
     ELSE IF dryRun
       THEN /\ item' = [item EXCEPT ![k] = Settle(@, "created")]
            /\ stats' = Bump(stats, "created")
            /\ git' = git
     ELSE /\ item' = [item EXCEPT ![k].pc = "pulls", ![k].trace = Append(@, "pulls")]
          /\ UNCHANGED <<stats, git>>
  /\ UNCHANGED <<static, listing, runPc, idx, exitCode, remote>>

\* POST /repos/{owner}/{repo}/pulls resolves; on success POST .../labels is sent
AutoPR_postPull(k) ==
  /\ bot = "auto" /\ k \in DOMAIN item /\ item[k].pc = "pulls"
  /\ LET n == cands[k].number
     IN \/ /\ \A p \in pulls : p.head # n      \* one open PR per head branch
           /\ pulls' = pulls \cup {[head |-> n, base |-> 0, labelled |-> FALSE]}
           /\ item' = [item EXCEPT ![k].pc = "labels", ![k].trace = Append(@, "labels")]
           /\ UNCHANGED <<stats, git>>
        \/ /\ pulls' = pulls
           /\ Caught(k, "pulls", git)
  /\ UNCHANGED <<static, listing, runPc, idx, exitCode, issues, origin, comments>>

\* POST .../issues/{pr}/labels resolves; on success createPullRequest returns,
\* stats.created++ follows and the comment on the issue is sent
AutoPR_postLabels(k) ==
  /\ bot = "auto" /\ k \in DOMAIN item /\ item[k].pc = "labels"
  /\ LET n == cands[k].number
     IN \/ /\ pulls' = {IF p.head = n THEN [p EXCEPT !.labelled = TRUE] ELSE p : p \in pulls}
           /\ item' = [item EXCEPT ![k].pc = "comment",
                                   ![k].counted = @ \cup {"created"},
                                   ![k].trace = Append(@, "comment")]
           /\ stats' = Bump(stats, "created")
           /\ git' = git
        \/ /\ pulls' = pulls
           /\ Caught(k, "labels", git)
  /\ UNCHANGED <<static, listing, runPc, idx, exitCode, issues, origin, comments>>

\* POST .../issues/{issue}/comments resolves
AutoPR_postComment(k) ==
  /\ bot = "auto" /\ k \in DOMAIN item /\ item[k].pc = "comment"
  /\ \/ /\ comments' = comments \cup {cands[k].number}
        /\ item' = [item EXCEPT ![k].pc = "settled"]
        /\ UNCHANGED <<stats, git>>
     \/ /\ comments' = comments
        /\ Caught(k, "comment", git)
  /\ UNCHANGED <<static, listing, runPc, idx, exitCode, issues, origin, pulls>>

AutoPR_processIssue ==
  \E k \in 1 .. MaxIssues :
     \/ AutoPR_generate(k)
     \/ AutoPR_afterBranch(k)
     \/ AutoPR_postPull(k)
     \/ AutoPR_postLabels(k)
     \/ AutoPR_postComment(k)

Next ==
  \/ DocsSync_run_start
  \/ DocsSync_listSpecific
  \/ DocsSync_listSpecificEnd
  \/ DocsSync_search
  \/ DocsSync_searchEnd
  \/ DocsSync_searchFail
  \/ DocsSync_convert
  \/ DocsSync_convertEnd
  \/ DocsSync_run_batch
  \/ Run_awaited
  \/ Run_summary
  \/ DocsSync_processPR
  \/ AutoPR_run_start
  \/ AutoPR_listSpecific
  \/ AutoPR_listSpecificEnd
  \/ AutoPR_search
  \/ AutoPR_searchEnd
  \/ AutoPR_searchFail
  \/ AutoPR_run_batch
  \/ AutoPR_processIssue

Spec == Init /\ [][Next]_vars

\* ---------------------------------------------------- convertMethodToPath
\* Method names are sequences of characters: a letter, the underscore, the
\* colon and the dash are the characters the conversion can tell apart.
Alphabet == {"a", "_", ":", "-"}
Methods == UNION {[1 .. m -> Alphabet] : m \in 0 .. MaxLen}

\* method.replace(/::/g, '-'): matches are found left to right, never overlapping
RECURSIVE convertMethodToPath(_)
convertMethodToPathMut(m) ==
  IF \E i \in 1 .. Len(m) - 1 : m[i] = ":" /\ m[i + 1] = ":"
    THEN LET i == CHOOSE j \in 1 .. Len(m) - 1 :
                    /\ m[j] = ":" /\ m[j + 1] = ":"
                    /\ \A h \in 1 .. j - 1 : ~(m[h] = ":" /\ m[h + 1] = ":")
         IN SubSeq(m, 1, i - 1) \o <<"-">> \o SubSeq(m, i + 2, Len(m))
    ELSE m
convertMethodToPath(m) ==
  IF m = <<>> THEN <<>>
  ELSE IF Len(m) >= 2 /\ m[1] = ":" /\ m[2] = ":"
    THEN <<"-">> \o convertMethodToPath(SubSeq(m, 3, Len(m)))
  ELSE <<m[1]>> \o convertMethodToPath(Tail(m))

\* an AutoPRManager about to convert one method name
InitPath ==
  /\ bot = "path"
  /\ envDryRun = "false"
  /\ specific = FALSE
  /\ runPc = "start"
  /\ requested = 0
  /\ found = 0
  /\ cands = <<>>
  /\ item = <<>>
  /\ idx = 0
  /\ stats = ZeroStats
  /\ exitCode = -1
  /\ dropped = 0
  /\ swallowed = FALSE
  /\ issues = [n \in Numbers |-> <<>>]
  /\ git = InitGit
  /\ origin = [n \in Numbers |-> NoBranch]
  /\ pulls = {}
  /\ comments = {}
  /\ method \in Methods
  /\ path = <<>>
  /\ IdleExcept("bots")

\* const methodPath = this.convertMethodToPath(method)
Path_call ==
  /\ bot = "path"
  /\ Len(path) < MaxCalls
  /\ path' = Append(path, convertMethodToPath(method))
  /\ UNCHANGED <<bot, envDryRun, specific, method, runPc, listing, item, idx,
                 stats, exitCode, remote, git, others>>

\* the manager's own state moves on between two conversions (this.stats)
Path_otherState ==
  /\ bot = "path"
  /\ stats.processed < MaxCalls
  /\ stats' = Bump(stats, "processed")
  /\ UNCHANGED <<static, runPc, listing, item, idx, exitCode, remote, git>>

NextPath == Path_call \/ Path_otherState

SpecPath == InitPath /\ [][NextPath]_vars

\* ---------------------------------------- generateMethodDocumentation
\* neither manager is running: the state both leave untouched
ManagersIdle(name) ==
  /\ bot = name
  /\ envDryRun = "false"
  /\ specific = FALSE
  /\ runPc = "start"
  /\ requested = 0
  /\ found = 0
  /\ cands = <<>>
  /\ item = <<>>
  /\ idx = 0
  /\ stats = ZeroStats
  /\ exitCode = -1
  /\ dropped = 0
  /\ swallowed = FALSE
  /\ issues = [n \in Numbers |-> <<>>]
  /\ git = InitGit
  /\ origin = [n \in Numbers |-> NoBranch]
  /\ pulls = {}
  /\ comments = {}
  /\ path = <<>>

managers == <<bot, envDryRun, specific, runPc, listing, item, idx, stats,
              exitCode, remote, git, path>>

\* the words and separators method names are made of, as character sequences
Task == <<"t", "a", "s", "k">>
Lightning == <<"l", "i", "g", "h", "t", "n", "i", "n", "g">>
Wallet == <<"w", "a", "l", "l", "e", "t">>
Pieces == {Task, Lightning, Wallet, <<":", ":">>, <<":">>, <<"x">>}

RECURSIVE Flatten(_)
Flatten(ss) == IF ss = <<>> THEN <<>> ELSE Head(ss) \o Flatten(Tail(ss))

PieceMethods == {Flatten(ss) : ss \in UNION {[1 .. m -> Pieces] : m \in 0 .. MaxPieces}}

\* String.prototype.includes / startsWith
Includes(s, sub) ==
  \E i \in 1 .. Len(s) - Len(sub) + 1 : SubSeq(s, i, i + Len(sub) - 1) = sub
StartsWith(s, sub) == Len(s) >= Len(sub) /\ SubSeq(s, 1, Len(sub)) = sub

determineApiVersionMut(m) ==
  IF StartsWith(m, Lightning) \/ StartsWith(m, Task) THEN "v20"
  ELSE IF Includes(m, <<":", ":">>) THEN "v20-dev"
  ELSE "legacy"
determineApiVersion(m) ==
  IF Includes(m, <<":", ":">>) THEN "v20-dev"
  ELSE IF StartsWith(m, Lightning) \/ StartsWith(m, Task) THEN "v20"
  ELSE "legacy"

\* "Determine category from method name" (swap and orderbook are not among
\* the names explored)
Category(m) ==
  IF Includes(m, Lightning) THEN "lightning"
  ELSE IF Includes(m, Task) THEN "task_managed"
  ELSE IF Includes(m, Wallet) THEN "wallet"
  ELSE "misc"

\* path.join(repoRoot, 'src', ..., apiVersion, category, `${methodPath}.mdx`)
\* as the list of its segments
FilePath(m) ==
  <<"repoRoot", "src", "pages", "komodo-defi-framework", "api",
    determineApiVersion(m), Category(m),
    convertMethodToPath(m) \o <<".", "m", "d", "x">> >>

InitDoc ==
  /\ ManagersIdle("doc")
  /\ method \in PieceMethods
  /\ IdleExcept("doc")
  /\ doc = NoDoc

\* generateMethodDocumentation(issueData, method) returns
Doc_generate ==
  /\ bot = "doc" /\ doc = NoDoc
  /\ doc' = [path |-> FilePath(method), apiVersion |-> determineApiVersion(method),
             category |-> Category(method), methodName |-> method]
  /\ UNCHANGED <<managers, method, validator, lifecycle, responses, setup, harvest, table, sidebar, search, request>>

NextDoc == Doc_generate

SpecDoc == InitDoc /\ [][NextDoc]_vars

\* ------------------------------------------- validate_compact_table_data.js
\* Table files: f.json in src/data/tables and g.json in its subdirectory d.
\* A file is absent, not JSON ("broken"), the JSON value null, or an object
\* with tables; `valid` is the verdict of the schema on it and `link` the
\* markdown link in the description of a row of its table.
Fragments == {<<>>, <<"A">>, <<"b">>, <<"!">>}

NoLink == [kind |-> "none", page |-> "", hash |-> <<>>]

Links ==
  {NoLink, [NoLink EXCEPT !.kind = "mailto"], [NoLink EXCEPT !.kind = "http"]}
    \cup {[kind |-> "internal", page |-> pg, hash |-> h] :
            pg \in {"p", "q"}, h \in Fragments}

NoFile == [kind |-> "absent", tables |-> {}, valid |-> FALSE, link |-> NoLink]

TableContents ==
  {[kind |-> "object", tables |-> ts, valid |-> v, link |-> l] :
     ts \in SUBSET {"t"}, v \in BOOLEAN, l \in Links}

FileStates(name) ==
  IF name = "f"
    THEN {NoFile, [NoFile EXCEPT !.kind = "broken"], [NoFile EXCEPT !.kind = "null"]}
           \cup {c \in TableContents : c.link # NoLink => c.tables # {}}
    ELSE {NoFile, [NoFile EXCEPT !.kind = "broken"],
          [kind |-> "object", tables |-> {"t"}, valid |-> TRUE, link |-> NoLink]}

\* ref.source.split('.') of the references an MDX page can hold
Sources ==
  {<<"f", "t">>, <<"f">>, <<"h", "t">>, <<"f", "u">>, <<"f", "t", "x">>,
   <<"d-g", "t">>}

\* the page p/index.mdx: absent, unprocessable by remark, or present with one
\* heading whose slug is "a" (and possibly deleted before it is accessed)
NoPage == [kind |-> "absent", slugs |-> {}, accessible |-> FALSE]

PageStates ==
  {NoPage,
   [kind |-> "unprocessable", slugs |-> {}, accessible |-> TRUE],
   [kind |-> "page", slugs |-> {<<"a">>}, accessible |-> TRUE],
   [kind |-> "page", slugs |-> {<<"a">>}, accessible |-> FALSE]}

\* @sindresorhus/slugify: lower-case, separators for everything that is not a
\* letter or digit, no separator at either end
SlugChar(c) ==
  CASE c = "A" -> "a"
    [] c = "!" -> "-"
    [] OTHER -> c

RECURSIVE TrimDashes(_)
TrimDashes(s) ==
  IF s = <<>> THEN s
  ELSE IF Head(s) = "-" THEN TrimDashes(Tail(s))
  ELSE IF s[Len(s)] = "-" THEN TrimDashes(SubSeq(s, 1, Len(s) - 1))
  ELSE s

Slugify(s) == TrimDashes([i \in DOMAIN s |-> SlugChar(s[i])])

\* the keys loadTableFiles stores a file under, in walkDir order
FileOrder == <<"g", "f">>
KeysOf(name) == IF name = "g" THEN {"d-g", "g"} ELSE {name}

\* an entry of validationErrors: what failed, and the table file key or the
\* position of the reference (its MDX file and line) the message names
Err(kind, key, ref) == [kind |-> kind, key |-> key, ref |-> ref]

RECURSIVE ParseErrors(_, _)
ParseErrors(dir, names) ==
  IF names = <<>> THEN <<>>
  ELSE (IF dir[Head(names)].kind = "broken" THEN <<Err("parse", Head(names), 0)>> ELSE <<>>)
         \o ParseErrors(dir, Tail(names))

\* loadTableFiles: every .json file that parses is stored under its keys
LoadTableFiles(dir) ==
  LET loaded == {n \in DOMAIN dir : dir[n].kind \notin {"absent", "broken"}}
      keys == UNION {KeysOf(n) : n \in loaded}
  IN [k \in keys |-> dir[CHOOSE n \in loaded : k \in KeysOf(n)]]

KeyOrder == <<"d-g", "g", "f">>

\* validateJsonStructure: one error head line for every loaded key whose
\* content fails the schema
RECURSIVE SchemaErrors(_, _)
SchemaErrors(tf, keys) ==
  IF keys = <<>> THEN <<>>
  ELSE LET k == Head(keys)
       IN (IF k \in DOMAIN tf /\ ~tf[k].valid
             THEN <<Err("schema", k, 0)>> ELSE <<>>)
            \o SchemaErrors(tf, Tail(keys))

\* validateCompactTableReferences, one reference: "ok", an error kind, or
\* "throw" when tableFile.content is null
CheckReference(src, tf) ==
  LET fileName == src[1]
      tableName == IF Len(src) >= 2 THEN src[2] ELSE ""
  IN IF fileName = "" \/ tableName = "" THEN "format"
     ELSE IF fileName \notin DOMAIN tf THEN "file"
     ELSE IF tf[fileName].kind = "null" THEN "throw"
     ELSE IF tableName \notin tf[fileName].tables THEN "table"
     ELSE "ok"

\* references.forEach(...): errors pushed until a callback throws
RECURSIVE ReferenceErrors(_, _, _)
ReferenceErrors(refs, i, tf) ==
  IF i > Len(refs) THEN [errors |-> <<>>, threw |-> FALSE]
  ELSE LET verdict == CheckReference(refs[i], tf)
       IN IF verdict = "throw" THEN [errors |-> <<>>, threw |-> TRUE]
          ELSE LET rest == ReferenceErrors(refs, i + 1, tf)
               IN IF verdict = "ok" THEN rest
                  ELSE [rest EXCEPT !.errors = <<Err(verdict, "", i)>> \o @]

\* createFileSlugs: a page that remark cannot process is left out
CreateFileSlugs(pages) ==
  [pg \in {q \in DOMAIN pages : pages[q].kind = "page"}
     |-> pages[pg].slugs]

\* processInternalLink: "valid" or the error it returns
processInternalLink(link, slugsOf, pages) ==
  IF link.kind = "mailto" THEN "valid"
  ELSE LET internalLinkFile == link.page
           slug == IF link.hash # <<>> THEN Slugify(link.hash) ELSE <<>>
       IN IF internalLinkFile \notin DOMAIN slugsOf THEN "Target file not found"
          ELSE IF slug # <<>> /\ slug \notin slugsOf[internalLinkFile]
            THEN "Slug not found"
          ELSE IF ~pages[internalLinkFile].accessible THEN "Cannot access file"
          ELSE "valid"

\* validateInternalLinksInDescriptions over the loaded keys, in order
RECURSIVE LinkErrors(_, _, _, _)
LinkErrors(tf, keys, slugsOf, pages) ==
  IF keys = <<>> THEN [errors |-> <<>>, threw |-> FALSE]
  ELSE LET k == Head(keys)
           rest == LinkErrors(tf, Tail(keys), slugsOf, pages)
       IN IF k \notin DOMAIN tf THEN rest
          ELSE IF tf[k].kind = "null" THEN [errors |-> <<>>, threw |-> TRUE]
          ELSE IF tf[k].link.kind \in {"none", "http"} THEN rest
          ELSE IF processInternalLink(tf[k].link, slugsOf, pages) = "valid" THEN rest
          ELSE [rest EXCEPT !.errors = <<Err("link", k, 0)>> \o @]

\* the catch block of main and the early exits: process.exit(1)
Abort ==
  /\ mainPc' = "exit"
  /\ exitStatus' = 1
  /\ printed' = FALSE

InitValidator ==
  /\ ManagersIdle("validator")
  /\ method = <<>>
  /\ IdleExcept("validator")
  /\ tablesDir = <<>> /\ mdxRefs = <<>> /\ mdxUnreadable = FALSE
  /\ pagesDir = <<>> /\ mainPc = "schema" /\ tableFiles = <<>>
  /\ references = <<>> /\ filepathSlugs = <<>>
  /\ validationErrors = <<>> /\ printed = FALSE /\ exitStatus = -1

botsAndDoc == <<managers, method, doc, lifecycle, responses, setup, harvest, table, sidebar, search, request>>

\* module level: the schema is read and parsed, or the process exits with 1
Validator_loadSchema ==
  /\ bot = "validator" /\ mainPc = "schema"
  /\ \/ mainPc' = "load" /\ UNCHANGED <<exitStatus, printed>>
     \/ Abort
  /\ UNCHANGED <<botsAndDoc, validatorDisk, tableFiles, references,
                 filepathSlugs, validationErrors>>

\* Step 1: loadTableFiles, and the exit when nothing was loaded
Validator_loadTableFiles ==
  /\ bot = "validator" /\ mainPc = "load"
  /\ \E dir \in [{"f", "g"} -> UNION {FileStates("f"), FileStates("g")}] :
       /\ \A n \in DOMAIN dir : dir[n] \in FileStates(n)
       /\ tablesDir' = dir
       /\ tableFiles' = LoadTableFiles(dir)
       /\ validationErrors' = validationErrors \o ParseErrors(dir, FileOrder)
       /\ IF DOMAIN LoadTableFiles(dir) = {}
            THEN Abort
            ELSE mainPc' = "structure" /\ UNCHANGED <<exitStatus, printed>>
  /\ UNCHANGED <<botsAndDoc, mdxRefs, mdxUnreadable, pagesDir, references, filepathSlugs>>

\* Step 2: validateJsonStructure
Validator_validateJsonStructure ==
  /\ bot = "validator" /\ mainPc = "structure"
  /\ validationErrors' = validationErrors \o SchemaErrors(tableFiles, KeyOrder)
  /\ mainPc' = "find"
  /\ UNCHANGED <<botsAndDoc, validatorDisk, tableFiles, references, filepathSlugs,
                 printed, exitStatus>>

\* Step 3: findCompactTableReferences
Validator_findCompactTableReferences ==
  /\ bot = "validator" /\ mainPc = "find"
  /\ \E refs \in UNION {[1 .. m -> Sources] : m \in 0 .. MaxRefs}, unreadable \in BOOLEAN :
       /\ mdxRefs' = refs
       /\ mdxUnreadable' = unreadable
       /\ references' = refs
       /\ validationErrors' =
            validationErrors \o (IF unreadable THEN <<Err("read", "", 0)>> ELSE <<>>)
  /\ mainPc' = "references"
  /\ UNCHANGED <<botsAndDoc, tablesDir, pagesDir, tableFiles, filepathSlugs,
                 printed, exitStatus>>

\* Step 4: validateCompactTableReferences
Validator_validateCompactTableReferences ==
  /\ bot = "validator" /\ mainPc = "references"
  /\ LET r == ReferenceErrors(references, 1, tableFiles)
     IN /\ validationErrors' = validationErrors \o r.errors
        /\ IF r.threw THEN Abort
           ELSE mainPc' = "slugs" /\ UNCHANGED <<exitStatus, printed>>
  /\ UNCHANGED <<botsAndDoc, validatorDisk, tableFiles, references, filepathSlugs>>

\* Step 5: createFileSlugs
Validator_createFileSlugs ==
  /\ bot = "validator" /\ mainPc = "slugs"
  /\ \E pg \in PageStates :
       /\ pagesDir' = [x \in {"p"} |-> pg]
       /\ filepathSlugs' = CreateFileSlugs([x \in {"p"} |-> pg])
  /\ mainPc' = "links"
  /\ UNCHANGED <<botsAndDoc, tablesDir, mdxRefs, mdxUnreadable, tableFiles,
                 references, validationErrors, printed, exitStatus>>

\* Step 6: validateInternalLinksInDescriptions
Validator_validateInternalLinksInDescriptions ==
  /\ bot = "validator" /\ mainPc = "links"
  /\ LET r == LinkErrors(tableFiles, KeyOrder, filepathSlugs, pagesDir)
     IN /\ validationErrors' = validationErrors \o r.errors
        /\ IF r.threw THEN Abort
           ELSE mainPc' = "report" /\ UNCHANGED <<exitStatus, printed>>
  /\ UNCHANGED <<botsAndDoc, validatorDisk, tableFiles, references, filepathSlugs>>

\* if (validationErrors.length > 0) { ...; process.exit(1) }
ReportStatusMut(errors) == 0
ReportStatus(errors) == IF Len(errors) > 0 THEN 1 ELSE 0

\* "Report results": print the errors and exit with 1, or fall off the end
Validator_report ==
  /\ bot = "validator" /\ mainPc = "report"
  /\ mainPc' = "exit"
  /\ printed' = (Len(validationErrors) > 0)
  /\ exitStatus' = ReportStatus(validationErrors)
  /\ UNCHANGED <<botsAndDoc, validatorDisk, tableFiles, references, filepathSlugs,
                 validationErrors>>

NextValidator ==
  \/ Validator_loadSchema
  \/ Validator_loadTableFiles
  \/ Validator_validateJsonStructure
  \/ Validator_findCompactTableReferences
  \/ Validator_validateCompactTableReferences
  \/ Validator_createFileSlugs
  \/ Validator_validateInternalLinksInDescriptions
  \/ Validator_report

SpecValidator == InitValidator /\ [][NextValidator]_vars

\* ------------------------------------- response harvester: task lifecycle
\* "Status polling: 2-second intervals with 20-check limit for task lifecycle"
StatusPollInterval == 2
StatusCheckLimit == 20

\* what a status call can answer
StatusAnswers == {"InProgress", "Ok", "Error"}

\* polling ends when the task finished or the check limit is reached
PollingEndedMut(checks, answer) ==
  answer # "InProgress" \/ checks > StatusCheckLimit
PollingEnded(checks, answer) ==
  answer # "InProgress" \/ checks >= StatusCheckLimit

Call(op, at) == [op |-> op, at |-> at]

InitLifecycle ==
  /\ ManagersIdle("lifecycle")
  /\ method = <<>>
  /\ IdleExcept("lifecycle")
  /\ \E n \in 1 .. MaxTaskMethods :
       lifecycle = [NoLifecycle EXCEPT !.pc = "init", !.remaining = n]

notLifecycle == <<managers, method, doc, validator, responses, setup, harvest, table, sidebar, search, request>>

\* the init call is sent and answered: a task id, or an error
Lifecycle_init ==
  /\ bot = "lifecycle" /\ lifecycle.pc = "init"
  /\ \E ok \in BOOLEAN :
       lifecycle' = [lifecycle EXCEPT
                       !.calls = Append(@, Call("init", lifecycle.clock)),
                       !.taskId = IF ok THEN 1 ELSE 0,
                       !.pc = IF ok THEN "poll" ELSE "next"]
  /\ UNCHANGED notLifecycle

\* one status check; when polling goes on, the harvester sleeps first
Lifecycle_status ==
  /\ bot = "lifecycle" /\ lifecycle.pc = "poll"
  /\ \E answer \in StatusAnswers :
       LET checks == lifecycle.checks + 1
           over == PollingEnded(checks, answer)
       IN lifecycle' = [lifecycle EXCEPT
                          !.calls = Append(@, Call("status", lifecycle.clock)),
                          !.checks = checks,
                          !.clock = IF over THEN @ ELSE @ + StatusPollInterval,
                          !.pc = IF over THEN "cancel" ELSE "poll"]
  /\ UNCHANGED notLifecycle

\* the cancel call
Lifecycle_cancel ==
  /\ bot = "lifecycle" /\ lifecycle.pc = "cancel"
  /\ lifecycle' = [lifecycle EXCEPT
                     !.calls = Append(@, Call("cancel", lifecycle.clock)),
                     !.pc = "next"]
  /\ UNCHANGED notLifecycle

\* go on to the next task lifecycle method, or finish
Lifecycle_next ==
  /\ bot = "lifecycle" /\ lifecycle.pc = "next"
  /\ lifecycle' = IF lifecycle.remaining > 1
                    THEN [NoLifecycle EXCEPT !.pc = "init",
                                             !.remaining = lifecycle.remaining - 1]
                    ELSE [lifecycle EXCEPT !.pc = "done", !.remaining = 0]
  /\ UNCHANGED notLifecycle

NextLifecycle ==
  \/ Lifecycle_init
  \/ Lifecycle_status
  \/ Lifecycle_cancel
  \/ Lifecycle_next

\* the harvester is a sequential program: it takes its next step
SpecLifecycle == InitLifecycle /\ [][NextLifecycle]_vars /\ WF_vars(NextLifecycle)

\* ------------------------------- response harvester: response classification
\* the wallet-specific fields whose values are normalised
WalletFields == {"address", "pubkey", "derivation_path", "account_index"}

\* strings that match one of the address patterns (iaa, cosmos, 0x, 1, 3, bc1)
Addresses == {"iaa1hkg6", "iaa1xt2ru7", "0xA1"}

Field(key, type, text) == [key |-> key, type |-> type, text |-> text]

\* the payload one KDF instance returned: an error or a result object
Payloads ==
  { [error |-> FALSE,
     fields |-> {Field("address", "string", "iaa1hkg6"),
                 Field("derivation_path", "string", "m/44'/0'"),
                 Field("account_index", "number", "0"),
                 Field("coin", "string", "IRIS")}],
    [error |-> FALSE,
     fields |-> {Field("address", "string", "iaa1xt2ru7"),
                 Field("derivation_path", "string", "m/44'/1'"),
                 Field("account_index", "number", "1"),
                 Field("coin", "string", "IRIS")}],
    [error |-> FALSE,
     fields |-> {Field("address", "string", "iaa1xt2ru7"),
                 Field("coin", "string", "IRIS")}],
    [error |-> FALSE,
     fields |-> {Field("iaa1hkg6", "object", "balances"),
                 Field("pubkey", "string", "02ab")}],
    [error |-> FALSE,
     fields |-> {Field("iaa1xt2ru7", "object", "balances"),
                 Field("pubkey", "string", "03cd")}],
    [error |-> TRUE,
     fields |-> {Field("error", "string", "No such coin"),
                 Field("error_type", "string", "NoSuchCoin")}] }

\* address keys become <address>; wallet-specific values are blanked
NormaliseFieldMut(f) ==
  IF f.key \in Addresses THEN Field("<address>", f.type, f.text)
  ELSE IF f.key \in WalletFields \ {"account_index"}
         THEN Field(f.key, "string", "<normalized>")
         ELSE f
NormaliseField(f) ==
  IF f.key \in Addresses THEN Field("<address>", f.type, f.text)
  ELSE IF f.key \in WalletFields THEN Field(f.key, "string", "<normalized>")
                                 ELSE f

Normalise(payload) == {NormaliseField(f) : f \in payload.fields}

\* the structure of a normalised payload: its keys, their types and, for
\* the blanked fields, the placeholder
Structure(payload) ==
  {[key |-> f.key, type |-> f.type,
    text |-> IF f.key \in WalletFields THEN f.text ELSE ""] :
     f \in Normalise(payload)}

AllSuccessful(instances) == \A i \in DOMAIN instances : ~instances[i].error

ConsistentStructure(instances) ==
  \A i, j \in DOMAIN instances : Structure(instances[i]) = Structure(instances[j])

Reasons(instances, tooLong) ==
  (IF AllSuccessful(instances) THEN {} ELSE {"contains_errors"})
    \cup (IF ConsistentStructure(instances) THEN {} ELSE {"inconsistent_structure"})
    \cup (IF tooLong THEN {"response_too_long"} ELSE {})

Classify(instances, tooLong) ==
  [instances |-> instances,
   tooLong |-> tooLong,
   all_successful |-> AllSuccessful(instances),
   consistent_structure |-> ConsistentStructure(instances),
   placement |-> IF Reasons(instances, tooLong) = {} THEN "auto_updatable"
                                                    ELSE "manual_review_needed",
   reasons |-> Reasons(instances, tooLong)]

InitResponses ==
  /\ ManagersIdle("responses")
  /\ method = <<>>
  /\ IdleExcept("responses")
  /\ responses = <<>>

\* one response is collected from native-hd and native-nonhd and classified
Responses_classify ==
  /\ bot = "responses" /\ Len(responses) < MaxResponses
  /\ \E hd \in Payloads, nonhd \in Payloads, tooLong \in BOOLEAN :
       responses' = Append(responses, Classify(<<hd, nonhd>>, tooLong))
  /\ UNCHANGED <<managers, method, doc, validator, lifecycle, setup, harvest, table, sidebar, search, request>>

NextResponses == Responses_classify

SpecResponses == InitResponses /\ [][NextResponses]_vars

\* ---------------------------------------------------------- test_setup.sh
max_wait == 300
SleepSeconds == 10

\* the arguments of the script; "help" stands for any other word
Commands == {"clean", "deep-clean", "build", "test", "all", "help"}

\* the calls main makes for each argument, in order
Steps(cmd) ==
  CASE cmd = "clean" -> <<"cleanup">>
    [] cmd = "deep-clean" -> <<"deep-clean">>
    [] cmd = "build" -> <<"check_dependencies", "start_services", "wait">>
    [] cmd = "test" -> <<"run_tests", "show_results">>
    [] cmd = "all" -> <<"check_dependencies", "cleanup", "start_services",
                        "wait", "run_tests", "show_results">>
    [] OTHER -> <<"usage">>

\* the call main is at; "trap" once the script is exiting
SetupPc ==
  IF setup.cmd = "" THEN "shell"
  ELSE IF setup.status # -1 THEN "trap"
  ELSE Steps(setup.cmd)[setup.at]

\* the step returned 0: main goes on, and exits with 0 after its last call
StepReturned(s) ==
  IF s.at < Len(Steps(s.cmd)) THEN [s EXCEPT !.at = @ + 1]
                              ELSE [s EXCEPT !.status = 0]

\* exit n, or a failing command under set -e
Exited(s, n) == [s EXCEPT !.status = n]

\* what the health column of `docker compose ps` shows for a listed service
Health == {"starting", "healthy", "unhealthy"}

\* the line of a service passes grep -q "healthy"
GrepHealthy(state) == state \in {"healthy", "unhealthy"}

\* docker compose ps | grep -E "(kdf-native-hd|kdf-native-nonhd)" | grep -q "healthy"
ServicesHealthy(s) == GrepHealthy(s.hd) \/ GrepHealthy(s.nonhd)

\* cleanup(): docker compose down -v, docker image rm kdf:latest
RemoveAll(s) == [s EXCEPT !.hd = "absent", !.nonhd = "absent", !.image = FALSE]

InitSetup ==
  /\ ManagersIdle("setup")
  /\ method = <<>>
  /\ IdleExcept("setup")
  /\ setup = NoSetup

notSetup == <<managers, method, doc, validator, lifecycle, responses, harvest, table, sidebar, search, request>>

\* the user runs the script with one argument
Setup_invoke ==
  /\ bot = "setup" /\ SetupPc = "shell"
  /\ Len(setup.history) < MaxRuns
  /\ \E cmd \in Commands :
       setup' = [setup EXCEPT !.cmd = cmd, !.at = 1, !.wait_time = 0,
                              !.polls = 0, !.status = -1]
  /\ UNCHANGED notSetup

Setup_usage ==
  /\ bot = "setup" /\ SetupPc = "usage"
  /\ setup' = Exited(setup, 1)
  /\ UNCHANGED notSetup

Setup_check_dependencies ==
  /\ bot = "setup" /\ SetupPc = "check_dependencies"
  /\ \E installed \in BOOLEAN :
       setup' = IF installed THEN StepReturned(setup) ELSE Exited(setup, 1)
  /\ UNCHANGED notSetup

\* cleanup called by main; "clean" exits with 0 right after it
Setup_cleanup ==
  /\ bot = "setup" /\ SetupPc = "cleanup"
  /\ setup' = IF setup.cmd = "clean" THEN Exited(RemoveAll(setup), 0)
                                     ELSE StepReturned(RemoveAll(setup))
  /\ UNCHANGED notSetup

Setup_deep_clean ==
  /\ bot = "setup" /\ SetupPc = "deep-clean"
  /\ \E reply \in BOOLEAN :
       setup' = Exited(IF reply THEN RemoveAll(setup) ELSE setup, 0)
  /\ UNCHANGED notSetup

\* start_services up to the wait: build-kdf.sh, docker compose up -d
Setup_start_services ==
  /\ bot = "setup" /\ SetupPc = "start_services"
  /\ \E built \in BOOLEAN, up \in BOOLEAN :
       setup' = IF ~built THEN Exited(setup, 1)
                ELSE IF ~up THEN Exited([setup EXCEPT !.image = TRUE], 1)
                ELSE StepReturned([setup EXCEPT !.image = TRUE,
                                            !.hd = "starting",
                                            !.nonhd = "starting"])
  /\ UNCHANGED notSetup

\* one turn of the while loop of start_services, or its end
Setup_wait ==
  /\ bot = "setup" /\ SetupPc = "wait"
  /\ IF setup.wait_time < max_wait
       THEN IF ServicesHealthy(setup)
              THEN setup' = StepReturned([setup EXCEPT !.polls = @ + 1])
              ELSE \E hd \in Health, nonhd \in Health :
                     setup' = [setup EXCEPT !.polls = @ + 1,
                                            !.wait_time = @ + SleepSeconds,
                                            !.hd = hd, !.nonhd = nonhd]
       ELSE setup' = Exited(setup, 1)
  /\ UNCHANGED notSetup

\* every docker compose up of run_tests is followed by || print_warning
Setup_run_tests ==
  /\ bot = "setup" /\ SetupPc = "run_tests"
  /\ setup' = StepReturned(setup)
  /\ UNCHANGED notSetup

\* the docker compose logs calls of show_results may fail under set -e
Setup_show_results ==
  /\ bot = "setup" /\ SetupPc = "show_results"
  /\ \E logs \in BOOLEAN :
       setup' = IF logs THEN StepReturned(setup) ELSE Exited(setup, 1)
  /\ UNCHANGED notSetup

\* trap cleanup EXIT: cleanup runs whenever the script exits
Setup_trap ==
  /\ bot = "setup" /\ SetupPc = "trap"
  /\ setup' = [RemoveAll(setup) EXCEPT
                 !.history = Append(@, [cmd |-> setup.cmd, status |-> setup.status]),
                 !.cmd = "", !.at = 0, !.status = -1]
  /\ UNCHANGED notSetup

NextSetup ==
  \/ Setup_invoke
  \/ Setup_usage
  \/ Setup_check_dependencies
  \/ Setup_cleanup
  \/ Setup_deep_clean
  \/ Setup_start_services
  \/ Setup_wait
  \/ Setup_run_tests
  \/ Setup_show_results
  \/ Setup_trap

SpecSetup == InitSetup /\ [][NextSetup]_vars

\* --------------------------------------------------- harvest_responses.sh
\* tail -n +3 of the newest-first list: all but the 2 most recent go
KeptReports == 2

\* a simple command under set -e: logged; the script exits when it fails
Command(h, op, ok, next) ==
  [h EXCEPT !.trace = Append(@, [op |-> op, ok |-> ok]),
            !.pc = IF ok THEN next ELSE "exited",
            !.status = IF ok THEN @ ELSE 1]

\* find ... | sort -r | tail -n +3 | xargs -r rm -f
KeepRecent(n) == IF n > KeptReports THEN KeptReports ELSE n

InitHarvest ==
  /\ ManagersIdle("harvest")
  /\ method = <<>>
  /\ IdleExcept("harvest")
  /\ \E compose \in BOOLEAN, venv \in BOOLEAN, reportsDir \in BOOLEAN,
        results \in 0 .. MaxReports, summaries \in 0 .. MaxReports :
       /\ ~reportsDir => results = 0 /\ summaries = 0
       /\ harvest = [NoHarvest EXCEPT !.pc = "root", !.cwd = "root",
                                      !.compose = compose, !.venv = venv,
                                      !.reportsDir = reportsDir,
                                      !.results = results,
                                      !.summaries = summaries]

notHarvest == <<managers, method, doc, validator, lifecycle, responses, setup, table, sidebar, search, request>>

\* cd to the workspace root; exit 1 without docker-compose.yml
Harvest_root ==
  /\ bot = "harvest" /\ harvest.pc = "root"
  /\ harvest' = IF harvest.compose
                  THEN [harvest EXCEPT !.pc = "activate"]
                  ELSE [harvest EXCEPT !.pc = "exited", !.status = 1]
  /\ UNCHANGED notHarvest

\* source utils/py/.venv/bin/activate, export KDF_BRANCH
Harvest_activate ==
  /\ bot = "harvest" /\ harvest.pc = "activate"
  /\ harvest' = IF harvest.venv
                  THEN [harvest EXCEPT !.pc = "up"]
                  ELSE [harvest EXCEPT !.pc = "exited", !.status = 1]
  /\ UNCHANGED notHarvest

\* docker compose up kdf-native-hd kdf-native-nonhd -d
Harvest_up ==
  /\ bot = "harvest" /\ harvest.pc = "up"
  /\ \E ok \in BOOLEAN : harvest' = Command(harvest, "start services", ok, "sleep")
  /\ UNCHANGED notHarvest

\* sleep 10
Harvest_sleep ==
  /\ bot = "harvest" /\ harvest.pc = "sleep"
  /\ harvest' = Command(harvest, "wait", TRUE, "clean_slate")
  /\ UNCHANGED notHarvest

\* python utils/py/clean_slate.py
Harvest_clean_slate ==
  /\ bot = "harvest" /\ harvest.pc = "clean_slate"
  /\ \E ok \in BOOLEAN :
       harvest' = Command(harvest, "clean_slate.py", ok, "generate")
  /\ UNCHANGED notHarvest

\* python utils/py/generate_postman.py --all
Harvest_generate ==
  /\ bot = "harvest" /\ harvest.pc = "generate"
  /\ \E ok \in BOOLEAN :
       harvest' = Command(harvest, "generate_postman.py --all", ok, "collect")
  /\ UNCHANGED notHarvest

\* cd utils/py && python ... --update-files && cd ../..
\* set -e ignores a failure that is not the last command of an && list
Harvest_collect ==
  /\ bot = "harvest" /\ harvest.pc = "collect"
  /\ \E ok \in BOOLEAN :
       harvest' = [harvest EXCEPT
                     !.trace = Append(@, [op |-> "sequence_responses_manager.py",
                                          ok |-> ok]),
                     !.cwd = IF ok THEN "root" ELSE "utils/py",
                     !.pc = "reports"]
  /\ UNCHANGED notHarvest

\* if [ -d "postman/reports" ]: remove all but the two most recent reports
Harvest_reports ==
  /\ bot = "harvest" /\ harvest.pc = "reports"
  /\ LET there == harvest.cwd = "root" /\ harvest.reportsDir
         h == Command(harvest, "remove old reports", TRUE, "down")
     IN harvest' = IF there
                     THEN [h EXCEPT !.results = KeepRecent(@), !.summaries = KeepRecent(@)]
                     ELSE h
  /\ UNCHANGED notHarvest

\* docker compose down, then the summary
Harvest_down ==
  /\ bot = "harvest" /\ harvest.pc = "down"
  /\ \E ok \in BOOLEAN :
       LET h == Command(harvest, "stop services", ok, "exited")
       IN harvest' = IF ok THEN [h EXCEPT !.status = 0] ELSE h
  /\ UNCHANGED notHarvest

NextHarvest ==
  \/ Harvest_root
  \/ Harvest_activate
  \/ Harvest_up
  \/ Harvest_sleep
  \/ Harvest_clean_slate
  \/ Harvest_generate
  \/ Harvest_collect
  \/ Harvest_reports
  \/ Harvest_down

SpecHarvest == InitHarvest /\ [][NextHarvest]_vars

\* ------------------------------------------------------------ tableUtils.js
\* JavaScript values: undefined, booleans, numbers, strings (as characters;
\* "U+2713" and "U+2717" are the check mark and the ballot cross, "backtick" is U+0060)
Undefined == [t |-> "undefined", b |-> FALSE, n |-> 0, s |-> <<>>]
Bool(b) == [t |-> "boolean", b |-> b, n |-> 0, s |-> <<>>]
Num(n) == [t |-> "number", b |-> FALSE, n |-> n, s |-> <<>>]
Str(s) == [t |-> "string", b |-> FALSE, n |-> 0, s |-> s]

Truthy(v) ==
  CASE v.t = "boolean" -> v.b
    [] v.t = "number" -> v.n # 0
    [] v.t = "string" -> v.s # <<>>
    [] OTHER -> FALSE

\* a || b
Or(a, b) == IF Truthy(a) THEN a ELSE b

\* String.prototype.trim
RECURSIVE TrimSpaces(_)
TrimSpaces(s) ==
  IF s = <<>> THEN s
  ELSE IF Head(s) = " " THEN TrimSpaces(Tail(s))
  ELSE IF s[Len(s)] = " " THEN TrimSpaces(SubSeq(s, 1, Len(s) - 1))
  ELSE s

RequiredWords == {<<"U+2713">>, <<"t", "r", "u", "e">>, <<"y", "e", "s">>, <<"r", "e", "q", "u", "i", "r", "e", "d">>, <<"1">>}

parseRequired(required) ==
  IF required.t = "boolean" THEN required.b
  ELSE IF required.t = "string"
         THEN TrimSpaces(ToLowerCase(required.s)) \in RequiredWords
         ELSE FALSE

\* row.key || row.Key for a row written with lower-case or capitalised keys
Get(row, value) == IF row.capitalised THEN Or(Undefined, value)
                                      ELSE Or(value, Undefined)

ConvertRow(row) ==
  LET defaultValue == Get(row, row.default)
      keep == /\ Truthy(defaultValue)
              /\ defaultValue # Str(<<"-">>)
              /\ defaultValue # Str(<<"backtick", "-", "backtick">>)
  IN [parameter |-> Get(row, row.parameter),
      type |-> Get(row, row.type),
      required |-> Bool(parseRequired(Get(row, row.required))),
      description |-> Get(row, row.description),
      hasDefault |-> keep,
      default |-> IF keep THEN defaultValue ELSE Undefined]

convertLegacyTableData(rows) == [i \in DOMAIN rows |-> ConvertRow(rows[i])]

Row(capitalised, parameter, type, required, default, description) ==
  [capitalised |-> capitalised, parameter |-> parameter, type |-> type,
   required |-> required, default |-> default, description |-> description]

\* exampleData, with the descriptions shortened to their first words
exampleLegacy ==
  <<Row(FALSE, Str(<<"c", "o", "i", "n">>), Str(<<"s", "t", "r", "i", "n", "g">>), Str(<<"U+2713">>), Str(<<"-">>),
        Str(<<"T", "h", "e", " ", "n", "a", "m", "e">>)),
    Row(FALSE, Str(<<"a", "m", "o", "u", "n", "t">>), Str(<<"f", "l", "o", "a", "t">>), Str(<<"U+2717">>), Str(<<"f", "a", "l", "s", "e">>),
        Str(<<"T", "h", "e", " ", "a", "m", "o", "u", "n", "t">>))>>

exampleCompact ==
  <<[parameter |-> Str(<<"c", "o", "i", "n">>), type |-> Str(<<"s", "t", "r", "i", "n", "g">>),
     required |-> Bool(TRUE), description |-> Str(<<"T", "h", "e", " ", "n", "a", "m", "e">>),
     hasDefault |-> FALSE, default |-> Undefined],
    [parameter |-> Str(<<"a", "m", "o", "u", "n", "t">>), type |-> Str(<<"f", "l", "o", "a", "t">>),
     required |-> Bool(FALSE), description |-> Str(<<"T", "h", "e", " ", "a", "m", "o", "u", "n", "t">>),
     hasDefault |-> TRUE, default |-> Str(<<"f", "a", "l", "s", "e">>)]>>

\* values a legacy row can carry in its required and default columns
RequiredValues ==
  {Undefined, Bool(TRUE), Bool(FALSE), Num(1), Str(<<"U+2713">>), Str(<<"U+2717">>),
   Str(<<" ", "Y", "e", "s", " ">>), Str(<<"T", "R", "U", "E">>), Str(<<"r", "e", "q", "u", "i", "r", "e", "d">>), Str(<<"1">>), Str(<<"n", "o">>)}

DefaultValues ==
  {Undefined, Str(<<>>), Str(<<"-">>), Str(<<"backtick", "-", "backtick">>),
   Str(<<" ", "-">>), Str(<<"f", "a", "l", "s", "e">>), Num(0), Num(5), Bool(FALSE)}

DescriptionValues == {Str(<<"T", "h", "e", " ", "n", "a", "m", "e">>), Str(<<>>)}

LegacyRows ==
  {Row(c, Str(<<"c", "o", "i", "n">>), Str(<<"s", "t", "r", "i", "n", "g">>), r, d, t) :
     c \in BOOLEAN, r \in RequiredValues, d \in DefaultValues,
     t \in DescriptionValues}

\* ---- parseMarkdownTable
\* a line of the table is the sequence of the texts between its pipes
\* String.prototype.split('|') also yields the text before the first pipe
\* and the text after the last one
Split(line) == <<<<>>>> \o line \o <<<<>>>>

\* .map(c => c.trim()).filter(c => c)
TrimmedCells(line) ==
  SelectSeq([k \in DOMAIN Split(line) |-> TrimSpaces(Split(line)[k])],
            LAMBDA c : c # <<>>)

\* position of the first "backtick" after position i, or 0
RECURSIVE NextBacktick(_, _)
NextBacktick(s, i) ==
  IF i > Len(s) THEN 0
  ELSE IF s[i] = "backtick" THEN i ELSE NextBacktick(s, i + 1)

\* value.replace(/`([^`]+)`/g, '$1')
RECURSIVE StripBackticks(_)
StripBackticks(s) ==
  IF s = <<>> THEN s
  ELSE LET close == NextBacktick(s, 2)
       IN IF s[1] = "backtick" /\ close > 2
            THEN SubSeq(s, 2, close - 1) \o StripBackticks(SubSeq(s, close + 1, Len(s)))
            ELSE <<s[1]>> \o StripBackticks(Tail(s))

\* value.replace(/^\s*\*\*([^*]+)\*\*\s*$/, '$1')
StripBold(s) ==
  LET t == TrimSpaces(s)
      inner == SubSeq(t, 3, Len(t) - 2)
  IN IF /\ Len(t) >= 5
        /\ SubSeq(t, 1, 2) = <<"*", "*">>
        /\ SubSeq(t, Len(t) - 1, Len(t)) = <<"*", "*">>
        /\ \A k \in DOMAIN inner : inner[k] # "*"
       THEN inner
       ELSE s

Clean(value) == StripBold(StripBackticks(value))

\* the field a header names, by the first word its lower-cased text includes
HeaderField(header) ==
  LET normalizedHeader == ToLowerCase(header)
  IN IF Includes(normalizedHeader, <<"p", "a", "r", "a", "m", "e", "t", "e", "r">>) THEN "parameter"
     ELSE IF Includes(normalizedHeader, <<"t", "y", "p", "e">>) THEN "type"
     ELSE IF Includes(normalizedHeader, <<"r", "e", "q", "u", "i", "r", "e", "d">>) THEN "required"
     ELSE IF Includes(normalizedHeader, <<"d", "e", "f", "a", "u", "l", "t">>) THEN "default"
     ELSE IF Includes(normalizedHeader, <<"d", "e", "s", "c", "r", "i", "p", "t", "i", "o", "n">>) THEN "description"
     ELSE "none"

\* the last header position that names the field, or 0
HeaderIndex(headers, field) ==
  LET at == {k \in DOMAIN headers : HeaderField(headers[k]) = field}
  IN IF at = {} THEN 0 ELSE CHOOSE k \in at : \A j \in at : j <= k

\* the row object built for one data line
ParseLine(headers, line) ==
  LET cells == TrimmedCells(line)
      value(field) ==
        LET k == HeaderIndex(headers, field)
        IN IF k \in DOMAIN cells THEN Clean(cells[k]) ELSE <<>>
      set(field) == HeaderIndex(headers, field) # 0
      text(field) == IF set(field) THEN Str(value(field)) ELSE Undefined
  IN Row(FALSE, text("parameter"), text("type"),
         IF set("required") THEN Bool(parseRequired(Str(value("required"))))
                            ELSE Undefined,
         IF set("default") /\ value("default") # <<>> /\ value("default") # <<"-">>
           THEN Str(value("default")) ELSE Undefined,
         text("description"))

\* the data rows parseMarkdownTable hands to convertLegacyTableData
ParsedRows(md) ==
  LET headers == TrimmedCells(md.headers)
  IN [i \in DOMAIN md.lines |-> ParseLine(headers, md.lines[i])]

\* the header line of exampleMarkdownTable
exampleHeaders ==
  <<<<" ", "P", "a", "r", "a", "m", "e", "t", "e", "r", " ">>, <<" ", "T", "y", "p", "e", " ", " ", " ">>, <<" ", "R", "e", "q", "u", "i", "r", "e", "d", " ">>, <<" ", "D", "e", "f", "a", "u", "l", "t", " ">>, <<" ", "D", "e", "s", "c", "r", "i", "p", "t", "i", "o", "n", " ">>>>

\* exampleMarkdownTable, with the descriptions shortened as in exampleData
exampleMarkdownTable ==
  [headers |-> exampleHeaders,
   lines |-> << <<<<" ", "c", "o", "i", "n", " ", " ", " ", " ", " ", " ">>, <<" ", "s", "t", "r", "i", "n", "g", " ">>, <<" ", " ", " ", " ", "U+2713", " ", " ", " ", " ", " ">>, <<" ", " ", " ", "backtick", "-", "backtick", " ", " ", " ">>, <<" ", "T", "h", "e", " ", "n", "a", "m", "e", " ">>>>,
                <<<<" ", "a", "m", "o", "u", "n", "t", " ", " ", " ", " ">>, <<" ", "f", "l", "o", "a", "t", " ", " ">>, <<" ", " ", " ", " ", "U+2717", " ", " ", " ", " ", " ">>, <<" ", "backtick", "f", "a", "l", "s", "e", "backtick", " ">>, <<" ", "T", "h", "e", " ", "a", "m", "o", "u", "n", "t", " ">>>> >>]

\* texts a cell of a data line can hold
CellTexts == {<<" ", "c", "o", "i", "n", " ">>, <<" ", "backtick", "-", "backtick", " ">>, <<" ", " ", " ">>, <<" ", "U+2713", " ">>, <<" ", "*", "*", "x", "*", "*", " ">>}

MarkdownTables ==
  {exampleMarkdownTable}
    \cup {[headers |-> exampleHeaders, lines |-> <<line>>] :
            line \in [1 .. Len(exampleHeaders) -> CellTexts]}

InitTable ==
  /\ ManagersIdle("table")
  /\ method = <<>>
  /\ IdleExcept("table")
  /\ table = NoTable

notTable == <<managers, method, doc, validator, lifecycle, responses, setup,
              harvest, sidebar, search, request>>

\* the caller starts from exampleData.legacy
Table_example ==
  /\ bot = "table" /\ ~table.converted /\ table.rows = <<>>
  /\ table' = [table EXCEPT !.rows = exampleLegacy]
  /\ UNCHANGED notTable

\* the caller adds a row to its legacy table
Table_push ==
  /\ bot = "table" /\ ~table.converted
  /\ Len(SelectSeq(table.rows, LAMBDA r : r \in LegacyRows)) < MaxRows
  /\ \E row \in LegacyRows : table' = [table EXCEPT !.rows = Append(@, row)]
  /\ UNCHANGED notTable

Table_convert ==
  /\ bot = "table" /\ ~table.converted
  /\ table' = [table EXCEPT !.converted = TRUE,
                            !.out = convertLegacyTableData(table.rows)]
  /\ UNCHANGED notTable

\* parseMarkdownTable on a markdown table
Table_parse ==
  /\ bot = "table" /\ ~table.converted /\ table.rows = <<>>
  /\ \E md \in MarkdownTables :
       table' = [table EXCEPT !.md = md,
                              !.rows = ParsedRows(md),
                              !.converted = TRUE,
                              !.out = convertLegacyTableData(ParsedRows(md))]
  /\ UNCHANGED notTable

\* a converted row read as an input row: lower-case keys, default if present
AsRow(out) ==
  Row(FALSE, out.parameter, out.type, out.required,
      IF out.hasDefault THEN out.default ELSE Undefined, out.description)

\* the errors validateTableData pushes for one row
RowErrors(out, index) ==
  LET problem(kind) == <<[row |-> index, kind |-> kind]>>
  IN (IF ~Truthy(out.parameter) THEN problem("Missing parameter name") ELSE <<>>)
     \o (IF ~Truthy(out.type) THEN problem("Missing type") ELSE <<>>)
     \o (IF ~Truthy(out.description) THEN problem("Missing description") ELSE <<>>)
     \o (IF out.required \notin {Bool(TRUE), Bool(FALSE), Undefined}
          THEN problem("Required field must be boolean or undefined")
          ELSE <<>>)

RECURSIVE validateTableData(_, _)
validateTableData(data, index) ==
  IF index > Len(data) THEN <<>>
  ELSE RowErrors(data[index], index) \o validateTableData(data, index + 1)

\* the caller converts the converted rows again and validates them
Table_check ==
  /\ bot = "table" /\ table.converted /\ ~table.checked
  /\ table' = [table EXCEPT
                 !.checked = TRUE,
                 !.again = convertLegacyTableData(
                             [i \in DOMAIN table.out |-> AsRow(table.out[i])]),
                 !.errors = validateTableData(table.out, 1)]
  /\ UNCHANGED notTable

NextTable ==
  \/ Table_example
  \/ Table_push
  \/ Table_convert
  \/ Table_parse
  \/ Table_check

SpecTable == InitTable /\ [][NextTable]_vars

\* --------------------------------------------------------- sidebar scripts
\* an href is the text dir + name + "/" (if slash); string is FALSE for an
\* href that is not a string
Href(dir, name, slash) == [dir |-> dir, name |-> name, slash |-> slash, string |-> TRUE]
NotAString == [dir |-> "", name |-> "", slash |-> FALSE, string |-> FALSE]

V20_WALLET_PREFIX == "/komodo-defi-framework/api/v20/wallet/"
BadPrefix == "src/pages/"
OtherPrefix == "/komodo-defi-framework/api/v20/"

\* l.href.startsWith(prefix), for the names of this model
HrefStartsWith(href, prefix) == href.string /\ href.dir = prefix

ensureTrailingSlash(href) == [href EXCEPT !.slash = TRUE]

Section(title, links) == [title |-> title, links |-> links]

\* the sections the cleanup script filters
TargetedMut(section) == TRUE
Targeted(section) == section.title = "Wallet"

\* section.links.filter(...)
CleanedSection(section) ==
  IF Targeted(section)
    THEN [section EXCEPT !.links = SelectSeq(@, LAMBDA l :
                                      ~(l.string /\ HrefStartsWith(l, BadPrefix)))]
    ELSE section

\* the data after the loop of cleanup-sidebar
Cleaned(file) ==
  IF file.v20
    THEN [file EXCEPT !.sections = [i \in DOMAIN @ |-> CleanedSection(@[i])]]
    ELSE file

\* number of links in all sections
RECURSIVE LinkCount(_)
LinkCount(sections) ==
  IF sections = <<>> THEN 0
  ELSE Len(Head(sections).links) + LinkCount(Tail(sections))

\* collectAllPageHrefsFromSidebar
AllHrefs(file) ==
  {sec.links[k] : <<sec, k>> \in
     {<<sec, k>> \in ({file.sections[i] : i \in DOMAIN file.sections}
                       \cup {file.elsewhere[i] : i \in DOMAIN file.elsewhere})
                     \X (1 .. MaxLinks + MaxArgs) : k \in DOMAIN sec.links}}

\* findWalletSection: position of the first Wallet section, or 0
findWalletSection(file) ==
  LET at == {i \in DOMAIN file.sections : file.sections[i].title = "Wallet"}
  IN IF ~file.v20 \/ at = {} THEN 0
     ELSE CHOOSE i \in at : \A j \in at : i <= j

\* the loop of auto-add-sidebar over its arguments: the hrefs it adds
RECURSIVE Additions(_, _)
Additions(args, allSidebarHrefs) ==
  IF args = <<>> THEN <<>>
  ELSE LET href == ensureTrailingSlash(Head(args))
           rest == Additions(Tail(args), allSidebarHrefs)
       IN IF ~HrefStartsWith(href, V20_WALLET_PREFIX) THEN rest
          ELSE IF href \in allSidebarHrefs THEN rest
          ELSE <<href>> \o rest

Added(file, args) ==
  LET w == findWalletSection(file)
  IN IF w = 0 THEN file
     ELSE [file EXCEPT !.sections[w].links = @ \o Additions(args, AllHrefs(file))]

\* link lists of at most n links over a set of hrefs
RECURSIVE Lists(_, _)
Lists(S, n) ==
  IF n = 0 THEN {<<>>}
  ELSE Lists(S, n - 1) \cup {Append(l, x) : l \in Lists(S, n - 1), x \in S}

FileHrefs ==
  {Href(BadPrefix, "a", FALSE), Href(V20_WALLET_PREFIX, "a", TRUE),
   Href(OtherPrefix, "a", TRUE), NotAString}

ArgHrefs ==
  {Href(V20_WALLET_PREFIX, "a", TRUE), Href(V20_WALLET_PREFIX, "b", TRUE),
   Href(V20_WALLET_PREFIX, "b", FALSE), Href(OtherPrefix, "c", TRUE)}

InitSidebar ==
  /\ ManagersIdle("sidebar")
  /\ method = <<>>
  /\ IdleExcept("sidebar")
  /\ \E v20 \in BOOLEAN, first \in Lists(FileHrefs, MaxLinks),
        other \in {<<>>, <<Href(BadPrefix, "a", FALSE)>>},
        second \in {<<>>, <<Href(BadPrefix, "b", FALSE)>>} :
       LET file == [v20 |-> v20,
                    sections |-> <<Section("Wallet", first),
                                   Section("Other", other),
                                   Section("Wallet", second)>>,
                    elsewhere |-> <<Section("Wallet",
                                            <<Href(BadPrefix, "c", FALSE)>>)>>]
       IN sidebar = [NoSidebar EXCEPT !.pc = "start", !.file = file,
                                      !.before = file]

notSidebar == <<managers, method, doc, validator, lifecycle, responses, setup,
                harvest, table, search, request>>

\* one run of the cleanup script; it may be run a second time right after
Sidebar_cleanup ==
  /\ bot = "sidebar" /\ sidebar.pc \in {"start", "cleaned"}
  /\ LET data == Cleaned(sidebar.file)
         removed == LinkCount(sidebar.file.sections) - LinkCount(data.sections)
     IN sidebar' = [sidebar EXCEPT
                      !.pc = IF sidebar.pc = "start" THEN "cleaned" ELSE "cleaned again",
                      !.before = sidebar.file,
                      !.file = IF removed > 0 THEN data ELSE @,
                      !.wrote = removed > 0]
  /\ UNCHANGED notSidebar

\* one run of the auto-add-sidebar script
Sidebar_add ==
  /\ bot = "sidebar" /\ sidebar.pc = "start"
  /\ \E args \in Lists(ArgHrefs, MaxArgs) :
       LET data == Added(sidebar.file, args)
           additions == LinkCount(data.sections) - LinkCount(sidebar.file.sections)
       IN sidebar' = [sidebar EXCEPT
                        !.pc = "added",
                        !.args = args,
                        !.before = sidebar.file,
                        !.file = IF additions > 0 THEN data ELSE @,
                        !.wrote = additions > 0]
  /\ UNCHANGED notSidebar

NextSidebar ==
  \/ Sidebar_cleanup
  \/ Sidebar_add

SpecSidebar == InitSidebar /\ [][NextSidebar]_vars

\* ------------------------------------------ label search of both managers
maxPages == 10
per_page == 50

\* what a page of GET /search/issues can hold, and the totals it can report
PageSizes == {0, 1, 20, per_page}
TotalCounts == {0, 1, 40, 70, 500, 1000}

\* while (page <= maxPages)
MorePagesMut(page) == page <= maxPages + 1
MorePages(page) == page <= maxPages

\* if (!res.data.items.length || all.length >= res.data.total_count) break
Breaks(items, all, total_count) == items = 0 \/ all >= total_count

InitSearch ==
  /\ ManagersIdle("search")
  /\ method = <<>>
  /\ IdleExcept("search")
  /\ \E manager \in {"sync", "auto"} :
       search = [NoSearch EXCEPT !.manager = manager, !.pc = "paging", !.page = 1]

notSearch == <<managers, method, doc, validator, lifecycle, responses, setup,
               harvest, table, sidebar, request>>

\* one turn of the while loop: a page request and its answer, or its
\* failure; after page++ the while condition is tested at once
Search_page ==
  /\ bot = "search" /\ search.pc = "paging"
  /\ \/ \E items \in PageSizes, total_count \in TotalCounts :
          LET all == search.all + items
          IN search' = [search EXCEPT
                          !.requests = @ + 1,
                          !.items = items,
                          !.total_count = total_count,
                          !.all = all,
                          !.page = IF Breaks(items, all, total_count) THEN @ ELSE @ + 1,
                          !.pc = IF Breaks(items, all, total_count)
                                      \/ ~MorePages(search.page + 1)
                                   THEN "collected" ELSE "paging"]
     \/ search' = [search EXCEPT !.requests = @ + 1, !.failed = TRUE,
                                 !.pc = "returned", !.result = 0]
  /\ UNCHANGED notSearch

\* listCandidateIssues returns all; listCandidatePRs fetches every item and
\* leaves out the ones whose request failed
Search_return ==
  /\ bot = "search" /\ search.pc = "collected"
  /\ \E lost \in {0, 1, search.all} :
       /\ lost <= search.all
       /\ search.manager = "auto" => lost = 0
       /\ search' = [search EXCEPT !.pc = "returned", !.result = search.all - lost]
  /\ UNCHANGED notSearch

NextSearch ==
  \/ Search_page
  \/ Search_return

SpecSearch == InitSearch /\ [][NextSearch]_vars

\* ------------------------------------------- rate-limit handlers (Octokit)
\* onRateLimit: return true when options.request.retryCount === 0
onRateLimitMut(retryCount) == retryCount <= 1
onRateLimit(retryCount) == retryCount = 0

\* onSecondaryRateLimit: only a warning, nothing is returned
onSecondaryRateLimit(retryCount) == FALSE

\* what the server can answer to one attempt
Answers == {"ok", "rate limit", "secondary rate limit", "server error"}

InitRequest ==
  /\ ManagersIdle("request")
  /\ method = <<>>
  /\ IdleExcept("request")
  /\ \E manager \in {"sync", "auto"} :
       request = [NoRequest EXCEPT !.manager = manager, !.pc = "sending",
                                   !.sent = 1]

\* one attempt of the request: the throttling plugin calls the handler of a
\* rate-limit answer and sends the request again, with retryCount + 1, when
\* the handler returns true; the retry plugin may repeat a failed attempt
Request_attempt ==
  /\ bot = "request" /\ request.pc = "sending"
  /\ \E answer \in Answers, again \in BOOLEAN :
       LET repeats == Len(SelectSeq(request.log,
                           LAMBDA e : e.answer = "server error" /\ e.retried))
           retried ==
             CASE answer = "rate limit" -> onRateLimit(request.retryCount)
               [] answer = "secondary rate limit" ->
                    onSecondaryRateLimit(request.retryCount)
               [] answer = "server error" -> again /\ repeats < MaxOtherRetries
               [] OTHER -> FALSE
       IN /\ answer \in {"ok", "rate limit", "secondary rate limit"} => ~again
          /\ request' = [request EXCEPT
                           !.log = Append(@, [answer |-> answer,
                                              retryCount |-> request.retryCount,
                                              retried |-> retried]),
                           !.retryCount = IF retried THEN @ + 1 ELSE @,
                           !.pc = IF retried THEN "sending"
                                  ELSE IF answer = "ok" THEN "answered"
                                                        ELSE "failed"]
  /\ UNCHANGED <<managers, method, doc, validator, lifecycle, responses, setup,
                 harvest, table, sidebar, search>>

\* the manager sends its next request: options.request starts afresh
Request_next ==
  /\ bot = "request" /\ request.pc \in {"answered", "failed"}
  /\ request.sent < MaxRequests
  /\ request' = [request EXCEPT !.pc = "sending", !.retryCount = 0,
                                !.log = <<>>, !.sent = @ + 1]
  /\ UNCHANGED <<managers, method, doc, validator, lifecycle, responses, setup,
                 harvest, table, sidebar, search>>

NextRequest ==
  \/ Request_attempt
  \/ Request_next

SpecRequest == InitRequest /\ [][NextRequest]_vars

\* ================================================================== claims
Range(s) == {s[i] : i \in DOMAIN s}

IsPrefix(s, t) == Len(s) <= Len(t) /\ \A i \in DOMAIN s : s[i] = t[i]

\* calls that were started and have not returned
InFlight == {k \in DOMAIN item : item[k].pc \notin {"idle", "settled"}}

\* C1: when run() has finished, stats.processed equals the number of
\* candidates the listing step returned, whatever happened to single items.
C1_AllProcessed == runPc = "done" => stats.processed = Len(cands)

\* a docs sync run over four candidates, three of which failed, has finished
C1_Witness ==
  /\ bot = "sync" /\ runPc = "done"
  /\ Len(cands) = 4
  /\ stats.errors = 3 /\ stats.created = 1
  /\ stats.processed = 4

ThrownNow ==
  {k \in DOMAIN item \cap DOMAIN item' :
     /\ item[k].pc # "settled" /\ item'[k].pc = "settled"
     /\ item'[k].failed # "none"}

BatchNo(k) == (k - 1) \div (IF bot = "sync" THEN 3 ELSE 2)

\* C3: at most 3 processPR calls (2 processIssue calls) are in flight, no call
\* of a later batch has started while a call of an earlier batch is unsettled,
\* and the run has finished only when every call has settled.
C3_BoundedBatches ==
  /\ Cardinality(InFlight) <= (IF bot = "sync" THEN 3 ELSE 2)
  /\ \A j \in DOMAIN item : \A k \in DOMAIN item :
       (BatchNo(j) < BatchNo(k) /\ item[k].pc # "idle") => item[j].pc = "settled"
  /\ runPc = "done" => \A k \in DOMAIN item : item[k].pc = "settled"

\* the fourth candidate of a docs sync is in flight: the second batch runs
C3_Witness ==
  /\ bot = "sync"
  /\ Len(item) = 4
  /\ item[4].pc \notin {"idle", "settled"}
  /\ \A k \in 1 .. 3 : item[k].pc = "settled"

\* C4 as stated: the run's result is that of processing the candidates one at
\* a time in listing order.  One at a time, the branch of the first listed
\* issue is cut from dev before any other issue is touched, so it holds that
\* issue's commit and no other.
C4_AsIfSequential ==
  (/\ bot = "auto" /\ idx = 0 /\ item # <<>>
   /\ "commit" \in Range(item[1].trace))
    => /\ git.br[cands[1].number].commits \subseteq {cands[1].number}
       /\ origin[cands[1].number].commits \subseteq {cands[1].number}

\* requests that change something outside the process
OutwardWrites == {"issue", "comment", "push", "pulls", "labels"}

\* C5: with DRY_RUN=true neither bot sends a write: no issue, branch on
\* origin, pull request, label or comment comes into being.
C5_DryRunWritesNothing ==
  envDryRun = "true" =>
    /\ \A k \in DOMAIN item : Range(item[k].trace) \cap OutwardWrites = {}
    /\ issues[1] \in {<<>>, <<"open">>, <<"closed">>}
    /\ issues[2] = <<>>
    /\ \A n \in Numbers : ~origin[n].exists
    /\ pulls = {}
    /\ comments = {}

\* a dry run of the auto PR bot that committed locally and reported a creation
C5_Witness ==
  /\ bot = "auto" /\ envDryRun = "true" /\ runPc = "done"
  /\ stats.created >= 1
  /\ \E n \in Numbers : git.br[n].exists /\ n \in git.br[n].commits

\* the steps of one processIssue call in the order the claim gives them
StepOrder ==
  <<"checkout", "write", "build", "add", "commit", "push", "pulls", "labels",
    "comment">>

\* C6: processIssue creates the branch, writes the files, commits, pushes,
\* creates the pull request (head auto-pr/issue-N, base dev), adds the labels
\* and then comments on the issue; no step starts before the one before it
\* succeeded.
C6_StepsInOrder ==
  /\ \A k \in DOMAIN item :
       bot = "auto" =>
         /\ IsPrefix(item[k].trace, StepOrder)
         /\ item[k].failed # "none" =>
              \/ item[k].trace # <<>> /\ item[k].trace[Len(item[k].trace)] = item[k].failed
              \/ StepOrder[Len(item[k].trace) + 1] = item[k].failed
  /\ \A p \in pulls :
       /\ p.base = 0
       /\ origin[p.head].exists
       /\ p.head \in origin[p.head].commits
  /\ \A n \in comments : \E p \in pulls : p.head = n /\ p.labelled

\* a call went through all nine steps
C6_Witness ==
  /\ bot = "auto"
  /\ \E k \in DOMAIN item :
       /\ item[k].trace = StepOrder
       /\ item[k].pc = "settled" /\ item[k].failed = "none"
       /\ cands[k].number \in comments

\* C7 as stated: when a processIssue call returns after a failure that came
\* after its branch was created, the branch exists neither locally nor, if the
\* call pushed it, on origin, and the working tree is on dev.
C7_FailedBranchGone ==
  [][ \A k \in DOMAIN item \cap DOMAIN item' :
        (/\ bot = "auto"
         /\ item[k].pc # "settled" /\ item'[k].pc = "settled"
         /\ item'[k].failed # "none"
         /\ "checkout" \in Range(item'[k].trace))
          => /\ ~git'.br[cands[k].number].exists
             /\ git'.cur = 0
             /\ "push" \in Range(item'[k].trace) => ~origin'[cands[k].number].exists
    ]_vars

\* C8 as stated: when the existence search of processPR is answered while the
\* target repository holds an issue with the PR's marker, the PR is counted
\* as skipped and the call ends without another request.
C8_NoIssueWhenMarked ==
  [][ \A k \in DOMAIN item \cap DOMAIN item' :
        (/\ bot = "sync"
         /\ item[k].pc = "find" /\ item'[k].pc # "find"
         /\ issues[cands[k].number] # <<>>)
          => /\ item'[k].pc = "settled"
             /\ item'[k].counted = {"skipped"}
             /\ item'[k].trace = <<"find">>
             /\ issues' = issues
    ]_vars

\* the spellings of the trigger label that differ in case only
TriggerSpellings ==
  {<<a, b, c>> : a \in {"d", "D"}, b \in {"o", "O"}, c \in {"c", "C"}}

Eligible(c) == c.state = "open" /\ c.labels \cap TriggerSpellings # {}

\* a list element whose fields are known
Known(c) == c.state \in States

\* C9 as stated: a candidate that is not open or lacks the label is counted in
\* stats.skipped, also when it was named in SPECIFIC_PRS / SPECIFIC_ISSUES.
C9_IneligibleCounted ==
  /\ \A k \in DOMAIN item :
       (item[k].pc # "idle" /\ Known(cands[k]) /\ ~Eligible(cands[k]))
         => item[k].counted = {"skipped"} /\ item[k].trace = <<>>
  /\ runPc = "done" => stats.skipped >= dropped

\* C9 amended: nothing is created for a candidate that is not open or lacks
\* the label (in any spelling of its case).  One that the label search
\* delivered is counted in stats.skipped by processPR / processIssue; one that
\* was named in SPECIFIC_PRS / SPECIFIC_ISSUES is left out by the listing step
\* and reaches no counter.
C9_IneligibleNotActedOn ==
  /\ \A k \in DOMAIN item :
       (item[k].pc # "idle" /\ Known(cands[k]) /\ ~Eligible(cands[k]))
         => /\ item[k].pc = "settled"
            /\ item[k].counted = {"skipped"}
            /\ item[k].trace = <<>>
  /\ specific => \A k \in DOMAIN cands : Known(cands[k]) => Eligible(cands[k])
  /\ stats.processed <= Len(cands)
  /\ stats.skipped <= stats.processed

\* the label search delivered a closed candidate and its call skipped it
C9_Witness ==
  /\ ~specific
  /\ \E k \in DOMAIN item :
       /\ Known(cands[k]) /\ cands[k].state = "closed"
       /\ item[k].pc = "settled" /\ item[k].counted = {"skipped"}

Count(s, c) == Cardinality({i \in DOMAIN s : s[i] = c})

HasDoubleColon(s) == \E i \in 1 .. Len(s) - 1 : s[i] = ":" /\ s[i + 1] = ":"

NotColonOrDash(c) == c \notin {":", "-"}

\* what "every :: became -, nothing else changed" means for m and its image p
Converted(m, p) ==
  /\ ~HasDoubleColon(p)
  /\ SelectSeq(p, NotColonOrDash) = SelectSeq(m, NotColonOrDash)
  /\ Count(p, "-") >= Count(m, "-")
  /\ Count(m, ":") - Count(p, ":") = 2 * (Count(p, "-") - Count(m, "-"))
  /\ Len(m) - Len(p) = Count(p, "-") - Count(m, "-")
  /\ ~HasDoubleColon(m) => p = m

\* C10: convertMethodToPath replaces every "::" by "-" and changes nothing
\* else (task::enable_utxo::init becomes task-enable_utxo-init), and calls
\* with equal arguments return equal values whatever the manager's state.
C10_ConvertMethodToPath ==
  /\ \A i \in DOMAIN path : Converted(method, path[i])
  /\ \A i \in DOMAIN path : \A j \in DOMAIN path : path[i] = path[j]
  /\ convertMethodToPath(<<"a", ":", ":", "a", "_", "a", ":", ":", "a">>)
       = <<"a", "-", "a", "_", "a", "-", "a">>

\* a name with two separators and an underscore was converted twice, the
\* manager's counters having moved in between
C10_Witness ==
  /\ method = <<":", ":", "_", ":", ":">>
  /\ path = << <<"-", "_", "-">>, <<"-", "_", "-">> >>
  /\ stats.processed > 0

\* the first characters of m spell w
Begins(m, w) == Len(m) >= Len(w) /\ \A i \in DOMAIN w : m[i] = w[i]

\* C11: a name containing "::" goes to v20-dev; otherwise one starting with
\* lightning or task goes to v20; every other name goes to legacy; the file
\* is <repo>/src/pages/komodo-defi-framework/api/<version>/<category>/<converted
\* method>.mdx.
C11_ApiVersion ==
  doc # NoDoc =>
    /\ HasDoubleColon(method) => doc.apiVersion = "v20-dev"
    /\ (~HasDoubleColon(method) /\ (Begins(method, Lightning) \/ Begins(method, Task)))
         => doc.apiVersion = "v20"
    /\ (~HasDoubleColon(method) /\ ~Begins(method, Lightning) /\ ~Begins(method, Task))
         => doc.apiVersion = "legacy"
    /\ Len(doc.path) = 8
    /\ SubSeq(doc.path, 1, 5) = <<"repoRoot", "src", "pages", "komodo-defi-framework", "api">>
    /\ doc.path[6] = doc.apiVersion
    /\ doc.path[7] = doc.category
    /\ LET file == doc.path[8]
       IN /\ Len(file) >= 4
          /\ SubSeq(file, Len(file) - 3, Len(file)) = <<".", "m", "d", "x">>
          /\ Converted(method, SubSeq(file, 1, Len(file) - 4))

\* task::x, which both starts with task and contains "::", was documented
C11_Witness ==
  /\ doc # NoDoc
  /\ method = Task \o <<":", ":", "x">>
  /\ doc.apiVersion = "v20-dev"
  /\ doc.path[8] = Task \o <<"-", "x", ".", "m", "d", "x">>

\* the reference at position i of `references` drew no validation error
Accepted(i) == \A e \in Range(validationErrors) : e.ref # i

\* the source has the form file.table, a table file is loaded under the key
\* file and its content has the key table
NamesLoadedTable(src) ==
  /\ Len(src) = 2
  /\ src[1] \in DOMAIN tableFiles
  /\ tableFiles[src[1]].kind = "object"
  /\ src[2] \in tableFiles[src[1]].tables

\* C12 as stated: a CompactTable reference is accepted if and only if its
\* source is file.table with `file` a loaded key and `table` a key of its
\* content; every other reference adds a validation error naming its MDX file
\* and line, and the run exits with status 1.
C12_ReferenceAcceptedIff ==
  /\ mainPc \in {"slugs", "links", "report"} =>
       \A i \in DOMAIN references : Accepted(i) <=> NamesLoadedTable(references[i])
  /\ (mainPc = "exit" /\ \E e \in Range(validationErrors) : e.ref > 0) => exitStatus = 1

\* C13 as stated: an internal link in a description passes only if its page
\* is among the pages with collected slugs and, when it has a hash fragment,
\* the slugified fragment is one of the heading slugs of that page; otherwise
\* a validation error is recorded.
C13_LinkValidOnlyIf ==
  mainPc = "report" =>
    \A k \in DOMAIN tableFiles :
      LET link == tableFiles[k].link
          passed == \A e \in Range(validationErrors) : ~(e.kind = "link" /\ e.key = k)
      IN link.kind = "internal" =>
           (passed =>
              /\ link.page \in DOMAIN filepathSlugs
              /\ link.hash # <<>> => Slugify(link.hash) \in filepathSlugs[link.page])

\* C14 as stated: main() runs every validation step whatever the earlier
\* ones collected, prints all collected errors, and exits with status 1
\* exactly when at least one error was collected.
C14_NeverFailsFast ==
  [][ (mainPc \notin {"schema", "exit"} /\ mainPc' = "exit") =>
        /\ mainPc = "report"
        /\ printed' = (validationErrors' # <<>>)
        /\ (exitStatus' = 1) = (validationErrors' # <<>>) ]_vars

\* C14 amended: main() leaves its steps early, with status 1 and without
\* printing what was collected, only when no table file could be loaded or
\* when a step throws on a table file whose content is null; otherwise it
\* runs all six steps whatever they collect, prints every collected error and
\* exits with status 1 exactly when at least one error was collected.  The
\* process also exits with status 1 when the schema itself cannot be loaded.
C14_FailsFastOnlyWhen ==
  [][ (mainPc # "exit" /\ mainPc' = "exit") =>
        /\ mainPc \in {"schema", "load", "references", "links", "report"}
        /\ mainPc = "schema" => exitStatus' = 1 /\ validationErrors' = <<>>
        /\ mainPc = "load" =>
             /\ \A n \in DOMAIN tablesDir' : tablesDir'[n].kind \in {"absent", "broken"}
             /\ exitStatus' = 1 /\ ~printed'
        /\ mainPc \in {"references", "links"} =>
             /\ \E k \in DOMAIN tableFiles : tableFiles[k].kind = "null"
             /\ exitStatus' = 1 /\ ~printed'
        /\ mainPc = "report" =>
             /\ printed' = (validationErrors' # <<>>)
             /\ (exitStatus' = 1) = (validationErrors' # <<>>)
             /\ exitStatus' \in {0, 1} ]_vars

\* a run that collected a schema error, a reference error and a link error,
\* went through every step, printed them and exited with status 1
C14_Witness ==
  /\ mainPc = "exit" /\ printed /\ exitStatus = 1
  /\ {e.kind : e \in Range(validationErrors)} = {"schema", "table", "link"}

StatusCalls == SelectSeq(lifecycle.calls, LAMBDA c : c.op = "status")

\* positions of the calls of one kind in the call sequence
CallsAt(op) == {i \in DOMAIN lifecycle.calls : lifecycle.calls[i].op = op}

LifecycleOrder ==
  /\ \A i \in CallsAt("init") : i = 1
  /\ \A i \in CallsAt("status") : i > 1 /\ lifecycle.taskId # 0
  /\ \A i \in CallsAt("cancel") :
       /\ i = Len(lifecycle.calls)
       /\ \A j \in CallsAt("status") : j < i
       /\ lifecycle.pc \notin {"init", "poll", "cancel"}
  /\ Len(StatusCalls) <= 20
  /\ \A i \in 1 .. Len(StatusCalls) - 1 :
       StatusCalls[i + 1].at = StatusCalls[i].at + 2
  /\ lifecycle.pc = "cancel" =>
       \/ Len(StatusCalls) = 20
       \/ Len(StatusCalls) > 0 /\ Len(StatusCalls) = lifecycle.checks

\* C15: for every task lifecycle method the calls go init, status, cancel: no
\* status before init returned a task id, status checks 2 seconds apart and
\* at most 20 of them, cancel only after polling ended; polling always ends.
C15_InitStatusCancel ==
  /\ []LifecycleOrder
  /\ (lifecycle.pc = "poll") ~> (lifecycle.pc # "poll")

\* the check limit was reached: init, twenty status checks, then cancel
C15_Witness ==
  /\ lifecycle.pc = "next"
  /\ Len(lifecycle.calls) = 22
  /\ lifecycle.calls[22].op = "cancel"
  /\ lifecycle.calls[21] = [op |-> "status", at |-> 38]

\* keys of a payload with every address key replaced by one placeholder,
\* each with its type unless it is a wallet-specific field
Shape(payload) ==
  {[key |-> IF f.key \in Addresses THEN "<address>" ELSE f.key,
    type |-> IF f.key \in WalletFields THEN "" ELSE f.type] :
     f \in payload.fields}

StartedOk ==
  /\ setup.cmd \in {"build", "all"}
  /\ setup.polls > 0
  /\ \/ setup.status = 0
     \/ setup.status = -1 /\ SetupPc = "run_tests"

\* C17: start_services returns success only when both kdf-native-hd and
\* kdf-native-nonhd are healthy; it polls every 10 seconds, at most 30
\* times, and returns failure once 300 seconds have passed.
C17_BothHealthy ==
  /\ StartedOk => setup.hd = "healthy" /\ setup.nonhd = "healthy"
  /\ setup.polls <= 30
  /\ setup.wait_time <= 300
  /\ (SetupPc = "wait" \/ StartedOk) =>
        setup.wait_time \in {10 * (setup.polls - 1), 10 * setup.polls}

\* the last invocation that exited was a successful build
AfterBuild ==
  /\ setup.history # <<>>
  /\ setup.history[Len(setup.history)] = [cmd |-> "build", status |-> 0]

\* C18: after a successful build has exited the two services and the image
\* kdf:latest still exist, so that a following test runs against them.
C18_BuildThenTest ==
  (AfterBuild /\ (SetupPc = "shell" \/ setup.cmd = "test")) =>
     /\ setup.hd # "absent"
     /\ setup.nonhd # "absent"
     /\ setup.image

\* the documented steps, in the documented order
Documented ==
  <<"batch_update_nodes.py", "generate_postman.py --sync-examples",
    "start services", "wait", "clean_slate.py", "generate_postman.py --all",
    "sequence_responses_manager.py", "remove old reports", "stop services">>

\* C19: harvest_responses.sh performs the documented steps in their order,
\* each only after the previous one succeeded.
C19_DocumentedSteps ==
  /\ \A i \in DOMAIN harvest.trace : harvest.trace[i].op = Documented[i]
  /\ \A i \in 1 .. Len(harvest.trace) - 1 : harvest.trace[i].ok
  /\ harvest.status = 0 => Len(harvest.trace) = Len(Documented)

\* C20: every legacy row is converted: required is true exactly when the
\* input is boolean true or, trimmed and lower-cased, one of the strings
\* U+2713 (check mark), true, yes, required, 1; the output has a default exactly when the
\* input default is non-empty and neither - nor back-ticked -; parameter,
\* type and description are copied; exampleData.legacy gives
\* exampleData.compact.
C20_ConvertedRows ==
  table.converted =>
    /\ Len(table.out) = Len(table.rows)
    /\ \A i \in DOMAIN table.rows :
         LET row == table.rows[i]
             out == table.out[i]
         IN /\ out.required.t = "boolean"
            /\ out.required.b =
                 \/ row.required = Bool(TRUE)
                 \/ /\ row.required.t = "string"
                    /\ TrimSpaces(ToLowerCase(row.required.s)) \in
                         {<<"U+2713">>, <<"t", "r", "u", "e">>, <<"y", "e", "s">>, <<"r", "e", "q", "u", "i", "r", "e", "d">>, <<"1">>}
            /\ out.hasDefault =
                 /\ row.default \notin {Undefined, Str(<<>>)}
                 /\ row.default \notin {Str(<<"-">>), Str(<<"backtick", "-", "backtick">>)}
            /\ out.hasDefault => out.default = row.default
            /\ out.parameter = row.parameter
            /\ out.type = row.type
            /\ out.description = row.description
    /\ table.rows = exampleLegacy => table.out = exampleCompact

\* the step with this name is in the log of the run, with this outcome
Logged(op, ok) == \E i \in DOMAIN harvest.trace : harvest.trace[i] = [op |-> op, ok |-> ok]

\* C30: on every exit of harvest_responses.sh after docker compose up has
\* succeeded, docker compose down has been run before the script ended.
C30_ServicesStopped ==
  (harvest.pc = "exited" /\ Logged("start services", TRUE)) =>
     \E ok \in BOOLEAN : Logged("stop services", ok)

\* C29: converting the converted rows again returns the same rows, and
\* validateTableData never reports a non-boolean required field for them.
C29_IdempotentAndBoolean ==
  table.checked =>
    /\ table.again = table.out
    /\ \A i \in DOMAIN table.errors :
         table.errors[i].kind # "Required field must be boolean or undefined"

\* what the field named by a header must hold for the text of its cell
FieldFor(header, cell) ==
  LET value == Clean(TrimSpaces(cell))
      field == HeaderField(TrimSpaces(header))
  IN CASE field = "required" -> Bool(parseRequired(Str(value)))
       [] field = "default" -> IF value \in {<<>>, <<"-">>} THEN Undefined
                                                            ELSE Str(value)
       [] OTHER -> IF value = <<>> THEN Undefined ELSE Str(value)

FieldOf(out, header) ==
  LET field == HeaderField(TrimSpaces(header))
  IN CASE field = "parameter" -> out.parameter
       [] field = "type" -> out.type
       [] field = "required" -> out.required
       [] field = "default" -> out.default
       [] OTHER -> out.description

Parsed == table.converted /\ table.md.headers # <<>>

\* C21: parseMarkdownTable puts every data cell into the field named by the
\* header of the same column, also in rows with an empty cell, and
\* exampleMarkdownTable parses to exampleData.compact.
C21_CellsUnderTheirHeaders ==
  Parsed =>
    /\ Len(table.out) = Len(table.md.lines)
    /\ \A i \in DOMAIN table.md.lines : \A k \in DOMAIN table.md.headers :
         FieldOf(table.out[i], table.md.headers[k])
           = FieldFor(table.md.headers[k], table.md.lines[i][k])
    /\ table.md = exampleMarkdownTable => table.out = exampleCompact

\* the links of a section that do not start with src/pages/
Kept(links) ==
  SelectSeq(links, LAMBDA l : ~(l.string /\ l.dir = "src/pages/"))

\* C22: the cleanup removes exactly the links whose href is a string that
\* starts with src/pages/ from the Wallet sections of the v20 navigation and
\* leaves everything else; it writes only when it removed a link; a second
\* run right after the first removes nothing and does not write.
C22_CleanupExact ==
  sidebar.pc \in {"cleaned", "cleaned again"} =>
    LET old == sidebar.before
        new == sidebar.file
    IN /\ new.v20 = old.v20 /\ new.elsewhere = old.elsewhere
       /\ Len(new.sections) = Len(old.sections)
       /\ \A i \in DOMAIN old.sections :
            /\ new.sections[i].title = old.sections[i].title
            /\ new.sections[i].links =
                 IF old.v20 /\ old.sections[i].title = "Wallet"
                   THEN Kept(old.sections[i].links)
                   ELSE old.sections[i].links
       /\ sidebar.wrote = (new # old)
       /\ sidebar.pc = "cleaned again" => ~sidebar.wrote /\ new = old

\* a first run removed a link from each Wallet section of the v20
\* navigation and kept what another section and another navigation held
C22_Witness ==
  /\ sidebar.pc = "cleaned again"
  /\ sidebar.file.v20
  /\ sidebar.file.sections[1].links = <<Href(V20_WALLET_PREFIX, "a", TRUE), NotAString>>
  /\ sidebar.file.sections[2].links = <<Href(BadPrefix, "a", FALSE)>>
  /\ sidebar.file.sections[3].links = <<>>
  /\ sidebar.file.elsewhere[1].links # <<>>

\* no href occurs twice in the file
NoDuplicate(file) ==
  \A i, j \in DOMAIN file.sections :
    \A k \in DOMAIN file.sections[i].links : \A m \in DOMAIN file.sections[j].links :
      (file.sections[i].links[k].string
         /\ file.sections[i].links[k] = file.sections[j].links[m])
        => (i = j /\ k = m)

\* C28: auto-add-sidebar never introduces a duplicate href, whatever the
\* arguments; it adds only hrefs under the v20 wallet prefix and only to
\* the Wallet section.
C28_NoDuplicateAdded ==
  sidebar.pc = "added" =>
    /\ NoDuplicate(sidebar.before) => NoDuplicate(sidebar.file)
    /\ sidebar.file.elsewhere = sidebar.before.elsewhere
    /\ \A i \in DOMAIN sidebar.file.sections :
         LET old == sidebar.before.sections[i].links
             new == sidebar.file.sections[i].links
         IN /\ SubSeq(new, 1, Len(old)) = old
            /\ Len(new) > Len(old) => sidebar.file.sections[i].title = "Wallet"
            /\ \A k \in Len(old) + 1 .. Len(new) : new[k].dir = V20_WALLET_PREFIX

\* C23: the label search makes at most 10 page requests of 50 items, stops
\* at the first empty page or once the collected items reach total_count,
\* never returns more than 500 candidates, and returns an empty list when a
\* page request fails.
C23_BoundedSearch ==
  /\ search.requests <= 10
  /\ search.all <= 50 * search.requests
  /\ search.pc = "paging" =>
       /\ search.requests < 10
       /\ search.requests > 0 =>
            search.items > 0 /\ search.all < search.total_count
  /\ search.pc = "returned" =>
       /\ search.result <= 500
       /\ search.failed => search.result = 0
       /\ ~search.failed =>
            \/ search.items = 0
            \/ search.all >= search.total_count
            \/ search.requests = 10

\* ten full pages were requested and 500 candidates returned
C23_Witness ==
  /\ search.pc = "returned"
  /\ search.requests = 10
  /\ search.result = 500
  /\ search.total_count = 1000

\* the attempts of the request that were repeated because of this answer
RetriedFor(answer) ==
  {i \in DOMAIN request.log :
     request.log[i].answer = answer /\ request.log[i].retried}

\* C24: a primary rate-limit answer leads to a retry only when the request
\* was not retried before, so at most once per request; a secondary
\* rate-limit answer never leads to a retry.
C24_BoundedRetries ==
  /\ \A i \in RetriedFor("rate limit") : request.log[i].retryCount = 0
  /\ Cardinality(RetriedFor("rate limit")) <= 1
  /\ RetriedFor("secondary rate limit") = {}

\* the request was retried once after a rate limit, hit the rate limit
\* again and was given up
C24_Witness ==
  /\ request.pc = "failed"
  /\ Len(request.log) = 2
  /\ request.log[1] = [answer |-> "rate limit", retryCount |-> 0, retried |-> TRUE]
  /\ request.log[2] = [answer |-> "rate limit", retryCount |-> 1, retried |-> FALSE]

\* C25: every branch auto-pr/issue-N is cut from dev, so what is pushed for
\* issue N holds the commit of issue N and no commit made for another issue of
\* the same run.
C25_BranchFromDev ==
  bot = "auto" =>
    \A n \in Numbers : origin[n].exists => origin[n].commits \subseteq {n}

\* C26: when run finishes, every candidate was counted in exactly one of
\* created, skipped and errors, so processed = created + skipped + errors.
C26_StatsConsistent ==
  runPc = "done" =>
    stats.processed = stats.created + stats.skipped + stats.errors

\* C27: the target repository never holds two issues carrying the marker of
\* the same source PR.
C27_OneIssuePerPR ==
  bot = "sync" => \A n \in Numbers : Len(issues[n]) <= 1

====
